---- MODULE Spec2Model ----
(***************************************************************************)
(* Verification model of async-snmp: the agent's two-phase SET             *)
(* (src/agent/set_handler.rs), the client walk streams                     *)
(* (src/client/walk.rs) and the shared UDP transport with its request-id   *)
(* correlator (src/transport/shared.rs).                                   *)
(***************************************************************************)
EXTENDS Integers, Sequences, FiniteSets, TLC

VARIABLES
    \* ---- Agent::handle_set ----
    setPc,          \* position inside handle_set: idle / test / commit / undo / done
    setReq,         \* the request: ctx.version, ctx.write_view, inner.vacm, pdu.varbinds
    setIndex,       \* loop index of the running phase (1-based)
    setPending,     \* pending: Vec<PendingSet>
    setCommitted,   \* committed: Vec<&PendingSet>
    setUndoPos,     \* position inside committed.iter().rev()
    setCalls,       \* handler invocations made so far, in order
    setResp,        \* the response PDU (None until handle_set returns)
    \* ---- Walk / BulkWalk ----
    walk,           \* the stream's fields (kind "none" before it is created)
    walkLast,       \* what the latest poll_next returned
    walkReply,      \* the reply varbind the latest poll_next examined (None if none)
    walkEmitted,    \* the varbinds yielded as Ok items so far, in order
    walkRequests,   \* the GETNEXT / GETBULK requests issued so far, in order
    walkEnd,        \* which branch set done
    \* ---- SharedUdpTransport ----
    pending,        \* inner.pending: request_id -> PendingRequest
    calls,          \* the requests made through handles: send, then recv
    now,            \* Instant::now()
    loopPc,         \* position of the receive loop: recv / purge
    lastDispatch,   \* what the loop did with the datagram it received last
    transportAlive, \* the SharedUdpTransport has not been dropped
    handles,        \* number of live SharedUdpHandle values
    loopRunning,    \* the task spawned by start_recv_loop has not ended
    warn_on_source_mismatch, \* inner.config.warn_on_source_mismatch
    \* ---- View / VacmConfig ----
    vacmView,       \* the View being built with include / exclude
    vacmViews,      \* VacmConfig::views: view name -> View
    vacmAccess,     \* VacmConfig::access_entries
    vacmLast,       \* the latest matches / check_access / get_access call and its result
    \* ---- shared request-id counter ----
    next_request_id, \* inner.next_request_id (None before build)
    allocated,      \* what alloc_request_id returned so far, and to which handle
    \* ---- BER integer encoders ----
    encoded, \* the latest encode_*_stack call: its input bytes and what it returned
    \* ---- OidTable ----
    entries, \* OidTable::entries
    tableLast, \* the latest OidTable call and what it returned
    \* ---- client builders ----
    builder, \* the client builder value in hand (its type and fields)
    clientConfig \* ClientConfig of the client built (None before build)

setVars == <<setPc, setReq, setIndex, setPending, setCommitted, setUndoPos,
             setCalls, setResp>>

walkVars == <<walk, walkLast, walkReply, walkEmitted, walkRequests, walkEnd>>

sharedVars == <<pending, calls, now, loopPc, lastDispatch, transportAlive,
                handles, loopRunning>>

vacmVars == <<vacmView, vacmViews, vacmAccess, vacmLast>>

allocVars == <<next_request_id, allocated>>

\* the builder's configuration of the shared transport
sharedConfig == <<warn_on_source_mismatch>>

encodeVars == <<encoded>>

tableVars == <<entries, tableLast>>

builderVars == <<builder, clientConfig>>

vars == <<setVars, walkVars, sharedVars, sharedConfig, vacmVars, allocVars, encodeVars, tableVars, builderVars>>

\* the variables each component leaves alone
notSet == <<walkVars, sharedVars, sharedConfig, vacmVars, allocVars, encodeVars, tableVars, builderVars>>
notWalk == <<setVars, sharedVars, sharedConfig, vacmVars, allocVars, encodeVars, tableVars, builderVars>>
notShared == <<setVars, walkVars, sharedConfig, vacmVars, allocVars, encodeVars, tableVars, builderVars>>
notVacm == <<setVars, walkVars, sharedVars, sharedConfig, allocVars, encodeVars, tableVars, builderVars>>
notAlloc == <<setVars, walkVars, sharedVars, sharedConfig, vacmVars, encodeVars, tableVars, builderVars>>
notSharedConfig == <<setVars, walkVars, sharedVars, vacmVars, allocVars, encodeVars, tableVars, builderVars>>
notEncode == <<setVars, walkVars, sharedVars, sharedConfig, vacmVars, allocVars, tableVars, builderVars>>
notTable == <<setVars, walkVars, sharedVars, sharedConfig, vacmVars, allocVars, encodeVars, builderVars>>
notBuilder == <<setVars, walkVars, sharedVars, sharedConfig, vacmVars, allocVars, encodeVars, tableVars>>

\* Option<T>: None is the empty sequence, Some(x) the one-element sequence
None == <<>>
Some(x) == <<x>>

(***************************************************************************)
(* OIDs                                                                    *)
(***************************************************************************)
\* the OIDs of the model: every arc sequence of these lengths over these arcs
Arcs == {1, 2}
OidLens == {1, 2}
Oids == UNION {[1..n -> Arcs] : n \in OidLens}

\* Oid::starts_with
StartsWith(oid, prefix) ==
    /\ Len(prefix) <= Len(oid)
    /\ \A i \in 1..Len(prefix) : oid[i] = prefix[i]

\* Ord for Oid: lexicographic on arcs, a proper prefix is smaller
OidLt(a, b) ==
    \E i \in 1..Len(b) :
        /\ \A j \in 1..(i - 1) : j <= Len(a) /\ a[j] = b[j]
        /\ (i > Len(a) \/ a[i] < b[i])

OidLe(a, b) == a = b \/ OidLt(a, b)

(***************************************************************************)
(* VACM views (src/agent/vacm.rs)                                          *)
(***************************************************************************)
\* the same with bit 0 of each byte first
MaskBitLsbFirst(mask, i) ==
    IF i \div 8 < Len(mask)
    THEN (mask[(i \div 8) + 1] \div (2 ^ (i % 8))) % 2
    ELSE 1

\* mask bit of arc position i (0-based); masks are sequences of bytes
MaskBit(mask, i) ==
    IF i \div 8 < Len(mask)
    THEN (mask[(i \div 8) + 1] \div (2 ^ (7 - (i % 8)))) % 2
    ELSE 1

\* ViewSubtree::matches
SubtreeMatches(subtree, oid) ==
    /\ Len(oid) >= Len(subtree.oid)
    /\ \A i \in 0..(Len(subtree.oid) - 1) :
          ~(MaskBit(subtree.mask, i) = 1 /\ oid[i + 1] # subtree.oid[i + 1])

\* the loop of View::contains from subtree k on, with the two flags so far
RECURSIVE ContainsLoop(_, _, _, _, _)
ContainsLoop(view, oid, k, dominated_by_include, dominated_by_exclude) ==
    IF k > Len(view)
    THEN dominated_by_include /\ ~dominated_by_exclude
    ELSE LET matches == SubtreeMatches(view[k], oid)
         IN ContainsLoop(view, oid, k + 1,
                dominated_by_include \/ (matches /\ view[k].included),
                dominated_by_exclude \/ (matches /\ ~view[k].included))

\* the same loop with each subtree overwriting the flags
RECURSIVE ContainsLoopOverwriting(_, _, _, _, _)
ContainsLoopOverwriting(view, oid, k, dominated_by_include, dominated_by_exclude) ==
    IF k > Len(view)
    THEN dominated_by_include /\ ~dominated_by_exclude
    ELSE LET matches == SubtreeMatches(view[k], oid)
         IN ContainsLoopOverwriting(view, oid, k + 1,
                matches /\ view[k].included, matches /\ ~view[k].included)

ViewContainsOverwriting(view, oid) == ContainsLoopOverwriting(view, oid, 1, FALSE, FALSE)

\* View::contains
ViewContains(view, oid) == ContainsLoop(view, oid, 1, FALSE, FALSE)

Subtree(oid, mask, included) == [oid |-> oid, mask |-> mask, included |-> included]

\* The views of the agent's VacmConfig: name -> View
ViewNames == {"all", "restricted"}
AgentViews ==
    [n \in ViewNames |->
        IF n = "all"
        THEN <<Subtree(<<1>>, <<>>, TRUE), Subtree(<<2>>, <<>>, TRUE)>>
        ELSE <<Subtree(<<1>>, <<>>, TRUE), Subtree(<<2>>, <<>>, TRUE),
               Subtree(<<1, 2>>, <<>>, FALSE)>>]

\* VacmConfig::check_access
check_access(views, view_name, oid) ==
    IF view_name = None THEN FALSE
    ELSE IF view_name[1] = "" THEN FALSE
    ELSE IF view_name[1] \notin DOMAIN views THEN FALSE
    ELSE ViewContains(views[view_name[1]], oid)

(***************************************************************************)
(* Handlers and results (src/handler)                                      *)
(***************************************************************************)
SetResult ==
    {"Ok", "NoAccess", "NotWritable", "WrongType", "WrongLength", "WrongEncoding",
     "WrongValue", "NoCreation", "InconsistentValue", "ResourceUnavailable",
     "CommitFailed", "UndoFailed", "InconsistentName"}

\* SetResult::is_ok
IsOkAlways(result) == TRUE
is_ok(result) == result = "Ok"

\* SetResult::to_error_status
ToErrorStatusGenErr(result) == IF result = "Ok" THEN "NoError" ELSE "GenErr"
to_error_status(result) == IF result = "Ok" THEN "NoError" ELSE result

\* ErrorStatus::as_i32
as_i32(status) ==
    CASE status = "NoError" -> 0
      [] status = "TooBig" -> 1
      [] status = "NoSuchName" -> 2
      [] status = "BadValue" -> 3
      [] status = "ReadOnly" -> 4
      [] status = "GenErr" -> 5
      [] status = "NoAccess" -> 6
      [] status = "WrongType" -> 7
      [] status = "WrongLength" -> 8
      [] status = "WrongEncoding" -> 9
      [] status = "WrongValue" -> 10
      [] status = "NoCreation" -> 11
      [] status = "InconsistentValue" -> 12
      [] status = "ResourceUnavailable" -> 13
      [] status = "CommitFailed" -> 14
      [] status = "UndoFailed" -> 15
      [] status = "AuthorizationError" -> 16
      [] status = "NotWritable" -> 17
      [] status = "InconsistentName" -> 18

\* The agent's registered handlers: a prefix and whether the handler
\* overrides test_set / commit_set (a handler that does not is read-only).
Handlers ==
    {[prefix |-> <<1>>, writable |-> TRUE],
     [prefix |-> <<2, 1>>, writable |-> FALSE]}

\* Agent::find_handler: the handler registered under the longest prefix of oid
find_handler(oid) ==
    LET owners == {h \in Handlers : StartsWith(oid, h.prefix)}
    IN IF owners = {} THEN None
       ELSE Some(CHOOSE h \in owners :
                    \A g \in owners : Len(g.prefix) <= Len(h.prefix))

\* MibHandler::test_set: the default implementation answers NotWritable,
\* an overriding handler answers whatever it decides
TestSetAnything(handler) == SetResult
test_set(handler) == IF handler.writable THEN SetResult ELSE {"NotWritable"}

\* MibHandler::commit_set, likewise
commit_set(handler) == IF handler.writable THEN SetResult ELSE {"NotWritable"}

(***************************************************************************)
(* Agent::handle_set                                                       *)
(***************************************************************************)
MaxVarbinds == 3
SetOids == {o \in Oids : Len(o) = 2}
SetValues == {1, 2}
Versions == {"V1", "V2c", "V3"}
VarBinds == [oid : SetOids, value : SetValues]
VarBindLists == UNION {[1..n -> VarBinds] : n \in 0..MaxVarbinds}
\* pdu.request_id
SetRequestIds == {-7, 7}

\* (inner.vacm is Some, ctx.write_view)
SetContexts ==
    {[vacm |-> FALSE, write_view |-> None],
     [vacm |-> TRUE, write_view |-> None],
     [vacm |-> TRUE, write_view |-> Some("restricted")]}

\* undo_set returns ()
Unit == "()"

\* a handler invocation and what it returned
Call(op, idx, oid, value, result) ==
    [op |-> op, idx |-> idx, oid |-> oid, value |-> value, result |-> result,
     ok |-> result = "Ok"]

\* the same PDU without the request's varbinds
ResponseWithoutVarbinds(status, index) ==
    Some([pdu_type |-> "Response", request_id |-> setReq.request_id,
          error_status |-> as_i32(status), error_index |-> index,
          varbinds |-> <<>>])

\* Ok(Pdu { pdu_type: Response, request_id, error_status, error_index, varbinds })
Response(status, index) ==
    Some([pdu_type |-> "Response", request_id |-> setReq.request_id,
          error_status |-> as_i32(status), error_index |-> index,
          varbinds |-> setReq.varbinds])

\* error status of the response when the VACM write check denies a varbind
AccessDeniedStatusV2Only(version) == "NoAccess"
AccessDeniedStatus(version) == IF version = "V1" THEN "NoSuchName" ELSE "NoAccess"

\* error status of the response when no handler owns a varbind's OID
NoHandlerStatusV2Only(version) == "NotWritable"
NoHandlerStatus(version) == IF version = "V1" THEN "NoSuchName" ELSE "NotWritable"

\* error status of the response when commit_set returned a non-Ok result
CommitFailureStatusOfResult(result) == to_error_status(result)
CommitFailureStatus(result) == "CommitFailed"

\* committed.iter().rev(): the positions of committed in the order visited
UndoOrderForward(n) == [j \in 1..n |-> j]
UndoOrder(n) == [j \in 1..n |-> n + 1 - j]

SetBegin ==
    /\ UNCHANGED notSet
    /\ setPc = "idle"
    /\ \E version \in Versions, c \in SetContexts, vbs \in VarBindLists,
          request_id \in SetRequestIds :
          /\ setReq' = [version |-> version, vacm |-> c.vacm,
                        write_view |-> c.write_view, request_id |-> request_id,
                        varbinds |-> vbs]
          /\ setPc' = IF Len(vbs) = 0 THEN "commit" ELSE "test"
    /\ setIndex' = 1
    /\ UNCHANGED <<setPending, setCommitted, setUndoPos, setCalls, setResp>>

\* one iteration of the phase 1 loop
SetTest ==
    /\ UNCHANGED notSet
    /\ setPc = "test"
    /\ LET index == setIndex
           vb == setReq.varbinds[index]
           found == find_handler(vb.oid)
           handler == found[1]
       IN IF setReq.vacm /\ ~check_access(AgentViews, setReq.write_view, vb.oid)
          THEN /\ setResp' = Response(AccessDeniedStatus(setReq.version), index)
               /\ setPc' = "done"
               /\ UNCHANGED <<setIndex, setPending, setCalls>>
          ELSE IF found = None
          THEN /\ setResp' = Response(NoHandlerStatus(setReq.version), index)
               /\ setPc' = "done"
               /\ UNCHANGED <<setIndex, setPending, setCalls>>
          ELSE \E result \in test_set(handler) :
                 /\ setCalls' = Append(setCalls,
                        Call("test_set", index, vb.oid, vb.value, result))
                 /\ IF ~is_ok(result)
                    THEN /\ setResp' = Response(to_error_status(result), index)
                         /\ setPc' = "done"
                         /\ UNCHANGED <<setIndex, setPending>>
                    ELSE /\ setPending' = Append(setPending,
                                [handler |-> handler, oid |-> vb.oid, value |-> vb.value])
                         /\ IF index = Len(setReq.varbinds)
                            THEN setPc' = "commit" /\ setIndex' = 1
                            ELSE setPc' = "test" /\ setIndex' = index + 1
                         /\ UNCHANGED setResp
    /\ UNCHANGED <<setReq, setCommitted, setUndoPos>>

\* one iteration of the phase 2 loop
SetCommit ==
    /\ UNCHANGED notSet
    /\ setPc = "commit"
    /\ setIndex <= Len(setPending)
    /\ LET p == setPending[setIndex]
       IN \E result \in commit_set(p.handler) :
            /\ setCalls' = Append(setCalls,
                   Call("commit_set", setIndex, p.oid, p.value, result))
            /\ IF ~is_ok(result)
               THEN IF Len(setCommitted) = 0
                    THEN /\ setResp' = Response(CommitFailureStatus(result), setIndex)
                         /\ setPc' = "done"
                         /\ UNCHANGED <<setIndex, setCommitted, setUndoPos>>
                    ELSE /\ setPc' = "undo"
                         /\ setUndoPos' = 1
                         /\ UNCHANGED <<setIndex, setCommitted, setResp>>
               ELSE /\ setCommitted' = Append(setCommitted, p)
                    /\ setIndex' = setIndex + 1
                    /\ UNCHANGED <<setPc, setUndoPos, setResp>>
    /\ UNCHANGED <<setReq, setPending>>

\* the commit_set call whose non-Ok result started the rollback
FailedCommit(cs) ==
    cs[CHOOSE q \in 1..Len(cs) : cs[q].op = "commit_set" /\ ~cs[q].ok]

\* one iteration of the rollback loop
SetUndo ==
    /\ UNCHANGED notSet
    /\ setPc = "undo"
    /\ LET pos == UndoOrder(Len(setCommitted))[setUndoPos]
           c == setCommitted[pos]
       IN setCalls' = Append(setCalls, Call("undo_set", pos, c.oid, c.value, Unit))
    /\ IF setUndoPos = Len(setCommitted)
       THEN /\ setResp' = Response(CommitFailureStatus(FailedCommit(setCalls).result),
                                   setIndex)
            /\ setPc' = "done"
            /\ UNCHANGED setUndoPos
       ELSE /\ setUndoPos' = setUndoPos + 1
            /\ UNCHANGED <<setPc, setResp>>
    /\ UNCHANGED <<setReq, setIndex, setPending, setCommitted>>

\* all commits succeeded
SetFinish ==
    /\ UNCHANGED notSet
    /\ setPc = "commit"
    /\ setIndex > Len(setPending)
    /\ setResp' = Response("NoError", 0)
    /\ setPc' = "done"
    /\ UNCHANGED <<setReq, setIndex, setPending, setCommitted, setUndoPos, setCalls>>

SetInit ==
    /\ setPc = "idle"
    /\ setReq = [version |-> "V2c", vacm |-> FALSE, write_view |-> None,
                 request_id |-> 7, varbinds |-> <<>>]
    /\ setIndex = 1
    /\ setPending = <<>>
    /\ setCommitted = <<>>
    /\ setUndoPos = 1
    /\ setCalls = <<>>
    /\ setResp = None

SetNext == SetBegin \/ SetTest \/ SetCommit \/ SetUndo \/ SetFinish

(***************************************************************************)
(* Properties of handle_set                                                *)
(***************************************************************************)
CallsAt(op) == {q \in 1..Len(setCalls) : setCalls[q].op = op}

\* C1: commit_set is invoked only after test_set has returned Ok for every
\* varbind of the request, and once a test_set has returned non-Ok neither
\* commit_set nor undo_set is invoked for that request.
C1_CommitOnlyAfterAllTestsOk ==
    /\ \A pos \in CallsAt("commit_set") \cup CallsAt("undo_set") :
          \A i \in 1..Len(setReq.varbinds) :
             \E q \in 1..(pos - 1) :
                /\ setCalls[q] = Call("test_set", i, setReq.varbinds[i].oid,
                                      setReq.varbinds[i].value, "Ok")
    /\ (\E q \in CallsAt("test_set") : ~setCalls[q].ok)
          => CallsAt("commit_set") \cup CallsAt("undo_set") = {}

\* a request whose third test_set failed after two passed has returned
C1_Witness ==
    /\ setPc = "done"
    /\ \E q \in CallsAt("test_set") : ~setCalls[q].ok /\ setCalls[q].idx = 3

\* C2: when commit_set fails at (1-based) index k, the calls that follow are
\* exactly undo_set for k-1, k-2, ..., 1, each once and with the OID and value
\* committed at that index; nothing is undone at k or later and nothing is
\* committed after k.
C2_UndoReverseOrder ==
    \A f \in CallsAt("commit_set") :
        ~setCalls[f].ok =>
            LET k == setCalls[f].idx
                tail == SubSeq(setCalls, f + 1, Len(setCalls))
                committedAt(i) ==
                    CHOOSE q \in CallsAt("commit_set") :
                        setCalls[q].idx = i /\ setCalls[q].ok
                expected(j) ==
                    Call("undo_set", k - j, setCalls[committedAt(k - j)].oid,
                         setCalls[committedAt(k - j)].value, Unit)
            IN /\ Len(tail) <= k - 1
               /\ \A j \in 1..Len(tail) : tail[j] = expected(j)
               /\ setPc = "done" => Len(tail) = k - 1

\* the third commit_set failed and the two earlier ones have been undone
C2_Witness ==
    /\ setPc = "done"
    /\ \E f \in CallsAt("commit_set") :
          ~setCalls[f].ok /\ setCalls[f].idx = 3 /\ Len(setCalls) = f + 2

\* the response of the finished request
Resp == setResp[1]

\* varbinds 1..n have passed the test phase: test_set returned Ok for each
TestsPassed(n) ==
    \A j \in 1..n :
        \E q \in CallsAt("test_set") :
            setCalls[q] = Call("test_set", j, setReq.varbinds[j].oid,
                               setReq.varbinds[j].value, "Ok")

\* the VACM write check lets the varbind at index i through
WriteAllowed(i) ==
    ~setReq.vacm \/ check_access(AgentViews, setReq.write_view, setReq.varbinds[i].oid)

\* the request ended at (1-based) index i with the given status code; no
\* test_set ran for i or later when testedBefore, and nothing was committed
EndedAt(i, code, testedUpTo) ==
    /\ \A q \in CallsAt("test_set") : setCalls[q].idx <= testedUpTo
    /\ CallsAt("commit_set") \cup CallsAt("undo_set") = {}
    /\ setPc = "done" => /\ Resp.error_status = code
                         /\ Resp.error_index = i
    /\ setPc \in {"idle", "test", "done"}

\* C13: when commit_set returns a non-Ok result for the varbind at 1-based
\* index k (0-based k-1), the response has error_status 14 (commitFailed) and
\* error_index k, whichever non-Ok SetResult the handler returned.
C13_CommitFailedAtIndex ==
    \A f \in CallsAt("commit_set") :
        (~setCalls[f].ok /\ setPc = "done")
            => /\ setCalls[f].result \in SetResult \ {"Ok"}
               /\ Resp.error_status = 14
               /\ Resp.error_index = setCalls[f].idx
               /\ Resp.pdu_type = "Response"

\* the second commit_set returned WrongValue and the request has returned
C13_Witness ==
    /\ setPc = "done"
    /\ \E f \in CallsAt("commit_set") :
          setCalls[f].result = "WrongValue" /\ setCalls[f].idx = 2

\* C14: with VACM configured, when check_access(write_view, oid) is false
\* for the varbind at 1-based index i and the earlier varbinds passed the
\* test phase, the response is noSuchName (2) for V1 and noAccess (6) for
\* V2c / V3 with error_index i, test_set is invoked for no varbind at i or
\* later, and commit_set is never invoked.
C14_WriteAccessDenied ==
    \A i \in 1..Len(setReq.varbinds) :
        (/\ setReq.vacm
         /\ ~check_access(AgentViews, setReq.write_view, setReq.varbinds[i].oid)
         /\ TestsPassed(i - 1))
        => EndedAt(i, IF setReq.version = "V1" THEN 2 ELSE 6, i - 1)

\* a V1 request was denied at its third varbind after two passed test_set
C14_Witness ==
    /\ setPc = "done"
    /\ setReq.version = "V1"
    /\ setReq.vacm
    /\ Len(setReq.varbinds) = 3
    /\ Len(setCalls) = 2
    /\ TestsPassed(2)
    /\ ~WriteAllowed(3)
    /\ Resp.error_index = 3

\* C15 as claimed: when no registered handler owns the OID of the varbind at
\* 1-based index i and the earlier varbinds passed the test phase, the
\* response is noSuchName (2) for V1 and notWritable (17) for V2c / V3 with
\* error_index i, and commit_set is never invoked.
C15_NoHandler ==
    \A i \in 1..Len(setReq.varbinds) :
        (/\ find_handler(setReq.varbinds[i].oid) = None
         /\ TestsPassed(i - 1))
        => EndedAt(i, IF setReq.version = "V1" THEN 2 ELSE 17, i - 1)

\* C15 amended: the same, for a varbind that the VACM write check lets
\* through (VACM not configured, or check_access true for its OID).
C15_NoHandlerAfterVacm ==
    \A i \in 1..Len(setReq.varbinds) :
        (/\ find_handler(setReq.varbinds[i].oid) = None
         /\ WriteAllowed(i)
         /\ TestsPassed(i - 1))
        => EndedAt(i, IF setReq.version = "V1" THEN 2 ELSE 17, i - 1)

\* a V3 request with VACM configured passed one varbind and ended at its
\* second, whose OID is in the write view and has no handler
C15_Witness ==
    /\ setPc = "done"
    /\ setReq.version = "V3"
    /\ setReq.vacm
    /\ Len(setReq.varbinds) >= 2
    /\ TestsPassed(1)
    /\ WriteAllowed(2)
    /\ find_handler(setReq.varbinds[2].oid) = None
    /\ Resp.error_status = 17

\* RFC 3416 error-status of each non-Ok SetResult
C16_Rfc3416 ==
    [r \in SetResult \ {"Ok"} |->
        CASE r = "NoAccess" -> 6
          [] r = "WrongType" -> 7
          [] r = "WrongLength" -> 8
          [] r = "WrongEncoding" -> 9
          [] r = "WrongValue" -> 10
          [] r = "NoCreation" -> 11
          [] r = "InconsistentValue" -> 12
          [] r = "ResourceUnavailable" -> 13
          [] r = "CommitFailed" -> 14
          [] r = "UndoFailed" -> 15
          [] r = "NotWritable" -> 17
          [] r = "InconsistentName" -> 18]

\* C16: test_set is invoked in request order; the first non-Ok result S, at
\* 1-based index i, is the last handler call of the request, and the response
\* carries the RFC 3416 status of S (never 0) and error_index i.
C16_FirstTestFailureEnds ==
    /\ \A q \in CallsAt("test_set") :
          /\ q = setCalls[q].idx
          /\ setCalls[q].oid = setReq.varbinds[q].oid
          /\ setCalls[q].value = setReq.varbinds[q].value
    /\ \A q \in CallsAt("test_set") :
          ~setCalls[q].ok
             => /\ q = Len(setCalls)
                /\ setPc = "done"
                /\ Resp.error_status = C16_Rfc3416[setCalls[q].result]
                /\ Resp.error_status # 0
                /\ Resp.error_index = setCalls[q].idx

\* the second test_set returned InconsistentName and a third varbind was
\* left untested
C16_Witness ==
    /\ setPc = "done"
    /\ Len(setReq.varbinds) = 3
    /\ Len(setCalls) = 2
    /\ setCalls[2].op = "test_set"
    /\ setCalls[2].result = "InconsistentName"

\* C17: when every varbind passes the VACM check, has a handler, and gets Ok
\* from test_set and from commit_set, the handler calls are test_set for
\* 1..n then commit_set for 1..n, each once and in request order, with no
\* undo_set, and the response is noError (0), error_index 0, with the
\* request's varbinds.
C17_FullSuccess ==
    LET n == Len(setReq.varbinds)
        vb(i) == setReq.varbinds[i]
    IN (/\ setPc = "done"
        /\ \A i \in 1..n : WriteAllowed(i) /\ find_handler(vb(i).oid) # None
        /\ \A q \in 1..Len(setCalls) : setCalls[q].op # "undo_set" => setCalls[q].ok)
       => /\ setCalls = [q \in 1..(2 * n) |->
                IF q <= n
                THEN Call("test_set", q, vb(q).oid, vb(q).value, "Ok")
                ELSE Call("commit_set", q - n, vb(q - n).oid, vb(q - n).value, "Ok")]
          /\ Resp = [pdu_type |-> "Response", request_id |-> setReq.request_id,
                     error_status |-> 0, error_index |-> 0,
                     varbinds |-> setReq.varbinds]

\* a three-varbind request has been committed in full
C17_Witness ==
    /\ setPc = "done"
    /\ Len(setReq.varbinds) = 3
    /\ Len(setCalls) = 6
    /\ \A q \in 1..6 : setCalls[q].ok
    /\ Resp.error_status = 0

\* C18: when the varbind at 1-based index i is routed to a handler that does
\* not override test_set and the earlier varbinds passed the test phase, the
\* response is notWritable (17) with error_index i and neither commit_set nor
\* undo_set is invoked for any varbind of the request.
C18_DefaultHandlerReadOnly ==
    \A i \in 1..Len(setReq.varbinds) :
        LET found == find_handler(setReq.varbinds[i].oid)
        IN (/\ WriteAllowed(i)
            /\ found # None
            /\ ~found[1].writable
            /\ TestsPassed(i - 1))
           => EndedAt(i, 17, i)

\* the second varbind went to the read-only handler after the first passed
C18_Witness ==
    /\ setPc = "done"
    /\ Len(setCalls) = 2
    /\ Len(setReq.varbinds) >= 2
    /\ setCalls[1].ok
    /\ setCalls[2] = Call("test_set", 2, <<2, 1>>, setReq.varbinds[2].value,
                          "NotWritable")
    /\ Resp.error_index = 2

\* The handlers seen as a store: commit_set(oid, v) writes v when it returns
\* Ok and nothing otherwise; undo_set reverts the write made by the
\* commit_set of the same varbind, that is, puts back the value that commit
\* replaced.  saved[i] is the value replaced by the commit of varbind i.
C35_StoreBefore ==
    [store |-> [o \in SetOids |-> 0], saved |-> [i \in 1..(MaxVarbinds + 1) |-> 0]]

C35_StoreStep(st, call) ==
    IF call.op = "commit_set" /\ call.ok
    THEN [store |-> [st.store EXCEPT ![call.oid] = call.value],
          saved |-> [st.saved EXCEPT ![call.idx] = st.store[call.oid]]]
    ELSE IF call.op = "undo_set"
    THEN [store |-> [st.store EXCEPT ![call.oid] = st.saved[call.idx]],
          saved |-> st.saved]
    ELSE st

RECURSIVE C35_StoreAfter(_, _)
C35_StoreAfter(cs, k) ==
    IF k = 0 THEN C35_StoreBefore
    ELSE C35_StoreStep(C35_StoreAfter(cs, k - 1), cs[k])

\* the store with the first k varbinds of the request written in order
RECURSIVE C35_Written(_, _)
C35_Written(vbs, k) ==
    IF k = 0 THEN C35_StoreBefore.store
    ELSE [C35_Written(vbs, k - 1) EXCEPT ![vbs[k].oid] = vbs[k].value]

\* C35: a SET request is all-or-nothing: when handle_set has returned, the
\* store holds every varbind of the request (written in request order) if
\* the response is noError, and is equal to the store before the request if
\* the response has any other error_status.
C35_AllOrNothing ==
    setPc = "done" =>
        LET store == C35_StoreAfter(setCalls, Len(setCalls)).store
        IN IF setResp[1].error_status = 0
           THEN store = C35_Written(setReq.varbinds, Len(setReq.varbinds))
           ELSE store = C35_StoreBefore.store

\* two commits wrote different values to the same OID, the third commit
\* failed, both writes were undone and the response is commitFailed
C35_Witness ==
    /\ setPc = "done"
    /\ Len(setReq.varbinds) = 3
    /\ setReq.varbinds[1].oid = setReq.varbinds[2].oid
    /\ setReq.varbinds[1].value # setReq.varbinds[2].value
    /\ Cardinality(CallsAt("undo_set")) = 2
    /\ setResp[1].error_status = as_i32("CommitFailed")
    /\ setResp[1].error_index = 3

\* C36: every response PDU returned by handle_set has pdu_type Response, the
\* request's request_id and the request's varbinds unchanged; its
\* error_index is 0 exactly when error_status is noError and otherwise lies
\* in [1, number of varbinds].
C36_ResponseFrame ==
    setResp # None =>
        /\ setPc = "done"
        /\ setResp[1].pdu_type = "Response"
        /\ setResp[1].request_id = setReq.request_id
        /\ setResp[1].varbinds = setReq.varbinds
        /\ setResp[1].error_index = 0 <=> setResp[1].error_status = as_i32("NoError")
        /\ setResp[1].error_status # as_i32("NoError") =>
              setResp[1].error_index \in 1..Len(setReq.varbinds)

\* an error response to a request with a negative request-id, pointing at the
\* second of three varbinds
C36_Witness ==
    /\ setResp # None
    /\ setReq.request_id < 0
    /\ setResp[1].request_id = setReq.request_id
    /\ Len(setReq.varbinds) = 3
    /\ setResp[1].varbinds = setReq.varbinds
    /\ setResp[1].error_status # 0
    /\ setResp[1].error_index = 2


(***************************************************************************)
(* Walk and BulkWalk (src/client/walk.rs)                                  *)
(***************************************************************************)
MaxRepetitions == 2
WalkValues == {"Integer", "EndOfMibView"}
WalkVarBinds == [oid : Oids, value : WalkValues]
\* what client.get_bulk can resolve to: Ok(Vec<VarBind>)
BulkResponses == UNION {[1..n -> WalkVarBinds] : n \in 0..MaxRepetitions}
RequestErrors == {"Timeout"}

\* Poll<Option<Result<VarBind>>>
PollPending == [kind |-> "Pending", oid |-> <<>>, value |-> "", previous |-> <<>>]
PollEnd == [kind |-> "None", oid |-> <<>>, value |-> "", previous |-> <<>>]
PollOk(vb) == [kind |-> "Ok", oid |-> vb.oid, value |-> vb.value, previous |-> <<>>]
PollNonIncreasing(previous, current) ==
    [kind |-> "NonIncreasingOid", oid |-> current, value |-> "", previous |-> previous]
PollErr(e) == [kind |-> e, oid |-> <<>>, value |-> "", previous |-> <<>>]

\* vb.oid <= last_oid
NonIncreasingOnlyLess(oid, last_oid) == OidLt(oid, last_oid)
NonIncreasing(oid, last_oid) == OidLe(oid, last_oid)

\* !vb.oid.starts_with(&self.base_oid)
LeftSubtreeNever(oid, base_oid) == FALSE
LeftSubtree(oid, base_oid) == ~StartsWith(oid, base_oid)

\* matches!(vb.value, Value::EndOfMibView)
IsEndOfMibViewNever(value) == FALSE
IsEndOfMibView(value) == value = "EndOfMibView"

\* the stream after its request resolved to Err(e): pending = None, done = true
FailRequestKeepsGoing(w) == [w EXCEPT !.pending = FALSE]
FailRequest(w) == [w EXCEPT !.pending = FALSE, !.done = TRUE]

\* the BulkWalk after an Ok response without varbinds: pending = None, done = true
EmptyResponseKeepsGoing(w) == [w EXCEPT !.pending = FALSE]
EmptyResponse(w) == [w EXCEPT !.pending = FALSE, !.done = TRUE]

\* Walk::new / BulkWalk::new
WalkNew ==
    /\ UNCHANGED notWalk
    /\ walk.kind = "none"
    /\ \E kind \in {"Walk", "BulkWalk"}, oid \in Oids :
          walk' = [kind |-> kind, base_oid |-> oid, current_oid |-> oid,
                   last_returned_oid |-> None, done |-> FALSE,
                   buffer |-> <<>>, buffer_idx |-> 0, pending |-> FALSE]
    /\ UNCHANGED <<walkLast, walkReply, walkEmitted, walkRequests, walkEnd>>

\* the checks both streams apply to one reply varbind, and their effect
ProcessVarBind(w, vb) ==
    /\ walkReply' = Some(vb)
    /\ IF IsEndOfMibView(vb.value)
       THEN /\ walk' = [w EXCEPT !.done = TRUE]
            /\ walkLast' = PollEnd
            /\ walkEnd' = "EndOfMibView"
            /\ UNCHANGED walkEmitted
       ELSE IF LeftSubtree(vb.oid, w.base_oid)
       THEN /\ walk' = [w EXCEPT !.done = TRUE]
            /\ walkLast' = PollEnd
            /\ walkEnd' = "SubtreeExit"
            /\ UNCHANGED walkEmitted
       ELSE IF w.last_returned_oid # None /\ NonIncreasing(vb.oid, w.last_returned_oid[1])
       THEN \* last_returned_oid.take() has emptied the field
            /\ walk' = [w EXCEPT !.done = TRUE, !.last_returned_oid = None]
            /\ walkLast' = PollNonIncreasing(w.last_returned_oid[1], vb.oid)
            /\ walkEnd' = "NonIncreasingOid"
            /\ UNCHANGED walkEmitted
       ELSE /\ walk' = [w EXCEPT !.current_oid = vb.oid,
                                 !.last_returned_oid = Some(vb.oid)]
            /\ walkLast' = PollOk(vb)
            /\ walkEmitted' = Append(walkEmitted, vb)
            /\ UNCHANGED walkEnd

\* poll_next on a finished stream
WalkPollDone ==
    /\ UNCHANGED notWalk
    /\ walk.kind \in {"Walk", "BulkWalk"}
    /\ walk.done
    /\ walkLast' = PollEnd
    /\ walkReply' = None
    /\ UNCHANGED <<walk, walkEmitted, walkRequests, walkEnd>>

\* the request the poll starts when none is pending
\* client.get_next(&oid) / client.get_bulk(&[oid], 0, max_rep)
Request(kind, oid) ==
    IF kind = "Walk"
    THEN [op |-> "get_next", oid |-> oid, non_repeaters |-> 0]
    ELSE [op |-> "get_bulk", oid |-> oid, non_repeaters |-> 0]

StartRequestOnBase == IF walk.pending THEN walkRequests
                      ELSE Append(walkRequests, Request(walk.kind, walk.base_oid))
StartRequest == IF walk.pending THEN walkRequests
                ELSE Append(walkRequests, Request(walk.kind, walk.current_oid))

\* Walk::poll_next, the request still in flight
WalkPollPending ==
    /\ UNCHANGED notWalk
    /\ walk.kind = "Walk"
    /\ ~walk.done
    /\ walkRequests' = StartRequest
    /\ walk' = [walk EXCEPT !.pending = TRUE]
    /\ walkLast' = PollPending
    /\ walkReply' = None
    /\ UNCHANGED <<walkEmitted, walkEnd>>

\* Walk::poll_next, client.get_next resolving to Ok(vb)
WalkPollOk ==
    /\ UNCHANGED notWalk
    /\ walk.kind = "Walk"
    /\ ~walk.done
    /\ walkRequests' = StartRequest
    /\ \E vb \in WalkVarBinds :
          ProcessVarBind([walk EXCEPT !.pending = FALSE], vb)

\* Walk::poll_next, client.get_next resolving to Err(e)
WalkPollErr ==
    /\ UNCHANGED notWalk
    /\ walk.kind = "Walk"
    /\ ~walk.done
    /\ walkRequests' = StartRequest
    /\ \E e \in RequestErrors :
          /\ walk' = FailRequest(walk)
          /\ walkLast' = PollErr(e)
    /\ walkEnd' = "RequestError"
    /\ walkReply' = None
    /\ UNCHANGED walkEmitted

\* BulkWalk::poll_next with a buffered varbind left
BulkPollBuffered ==
    /\ UNCHANGED notWalk
    /\ walk.kind = "BulkWalk"
    /\ ~walk.done
    /\ walk.buffer_idx < Len(walk.buffer)
    /\ ProcessVarBind([walk EXCEPT !.buffer_idx = @ + 1],
                      walk.buffer[walk.buffer_idx + 1])
    /\ UNCHANGED walkRequests

\* BulkWalk::poll_next, buffer exhausted and the request still in flight
BulkPollPending ==
    /\ UNCHANGED notWalk
    /\ walk.kind = "BulkWalk"
    /\ ~walk.done
    /\ walk.buffer_idx >= Len(walk.buffer)
    /\ walkRequests' = StartRequest
    /\ walk' = [walk EXCEPT !.pending = TRUE]
    /\ walkLast' = PollPending
    /\ walkReply' = None
    /\ UNCHANGED <<walkEmitted, walkEnd>>

\* BulkWalk::poll_next, buffer exhausted and client.get_bulk resolving to
\* Ok(varbinds): an empty response ends the stream, otherwise the loop goes
\* on to the first buffered varbind
BulkPollOk ==
    /\ UNCHANGED notWalk
    /\ walk.kind = "BulkWalk"
    /\ ~walk.done
    /\ walk.buffer_idx >= Len(walk.buffer)
    /\ walkRequests' = StartRequest
    /\ \E varbinds \in BulkResponses :
          IF Len(varbinds) = 0
          THEN /\ walk' = EmptyResponse(walk)
               /\ walkLast' = PollEnd
               /\ walkEnd' = "EmptyResponse"
               /\ walkReply' = None
               /\ UNCHANGED walkEmitted
          ELSE ProcessVarBind([walk EXCEPT !.pending = FALSE,
                                            !.buffer = varbinds,
                                            !.buffer_idx = 1],
                              varbinds[1])

\* BulkWalk::poll_next, client.get_bulk resolving to Err(e)
BulkPollErr ==
    /\ UNCHANGED notWalk
    /\ walk.kind = "BulkWalk"
    /\ ~walk.done
    /\ walk.buffer_idx >= Len(walk.buffer)
    /\ walkRequests' = StartRequest
    /\ \E e \in RequestErrors :
          /\ walk' = FailRequest(walk)
          /\ walkLast' = PollErr(e)
    /\ walkEnd' = "RequestError"
    /\ walkReply' = None
    /\ UNCHANGED walkEmitted

WalkInit ==
    /\ walk = [kind |-> "none", base_oid |-> <<>>, current_oid |-> <<>>,
               last_returned_oid |-> None, done |-> FALSE,
               buffer |-> <<>>, buffer_idx |-> 0, pending |-> FALSE]
    /\ walkLast = PollPending
    /\ walkReply = None
    /\ walkEmitted = <<>>
    /\ walkRequests = <<>>
    /\ walkEnd = "none"

WalkNext ==
    \/ WalkNew \/ WalkPollDone
    \/ WalkPollPending \/ WalkPollOk \/ WalkPollErr
    \/ BulkPollBuffered \/ BulkPollPending \/ BulkPollOk \/ BulkPollErr


(***************************************************************************)
(* Properties of the walk streams                                          *)
(***************************************************************************)
\* the OIDs of the model that lie in the walk's subtree
InSubtree == {o \in Oids : StartsWith(o, walk.base_oid)}

\* C4: the OIDs of the Ok items of a Walk or BulkWalk are strictly
\* increasing, whatever the agent replies.
C4_EmittedStrictlyIncreasing ==
    \A i \in 1..(Len(walkEmitted) - 1) :
        OidLt(walkEmitted[i].oid, walkEmitted[i + 1].oid)

\* a BulkWalk has yielded three items, the third from a second GETBULK
C4_Witness ==
    walk.kind = "BulkWalk" /\ Len(walkEmitted) = 3 /\ Len(walkRequests) = 2

\* C5: every Ok item lies in the base subtree and none carries EndOfMibView.
C5_EmittedInsideBase ==
    \A i \in 1..Len(walkEmitted) :
        /\ StartsWith(walkEmitted[i].oid, walk.base_oid)
        /\ walkEmitted[i].value # "EndOfMibView"

\* after one item, a reply outside the subtree ended the walk unemitted
C5_Witness ==
    /\ walkEnd = "SubtreeExit"
    /\ Len(walkEmitted) = 1
    /\ walkReply # None
    /\ ~StartsWith(walkReply[1].oid, walk.base_oid)
    /\ walkReply[1].value # "EndOfMibView"

\* C6 as claimed: a walk whose requests all succeed ends after finitely many
\* requests for one of exactly three reasons (EndOfMibView, subtree exit,
\* NonIncreasingOid).
C6_ThreeEndReasons ==
    (walk.done /\ walkEnd # "RequestError")
        => walkEnd \in {"EndOfMibView", "SubtreeExit", "NonIncreasingOid"}

\* C6 amended: the number of requests never exceeds the number of OIDs in the
\* subtree plus one, a polled walk whose requests resolve always ends, and
\* when no request failed it ended on EndOfMibView, a subtree exit, a
\* NonIncreasingOid error or (BulkWalk) a GETBULK response without varbinds.
C6_EndsWithinBound ==
    /\ Len(walkRequests) <= Len(walkEmitted) + 1
    /\ Len(walkEmitted) <= Cardinality(InSubtree)
    /\ (walk.done /\ walkEnd # "RequestError")
          => \/ walkEnd \in {"EndOfMibView", "SubtreeExit", "NonIncreasingOid"}
             \/ walk.kind = "BulkWalk" /\ walkEnd = "EmptyResponse"

\* C6 amended (whole statement): the bound and the four end reasons hold in
\* every state, and every started walk is eventually done.
C6_WalkTerminates ==
    /\ []C6_EndsWithinBound
    /\ (walk.kind # "none") ~> walk.done

\* a walk that emitted every OID of a three-OID subtree ended on a fourth
\* request whose reply was not increasing
C6_Witness ==
    /\ walk.done
    /\ walkEnd = "NonIncreasingOid"
    /\ Len(walkEmitted) = 3
    /\ Len(walkRequests) = 4

\* C7: once p has been emitted, a reply inside the subtree that is not
\* EndOfMibView and whose OID c is <= p makes the poll yield
\* Err(NonIncreasingOid{previous: p, current: c}) and finishes the stream;
\* c is not emitted.
C7_NonIncreasingIsError ==
    LET prior == IF walkLast.kind = "Ok"
                 THEN SubSeq(walkEmitted, 1, Len(walkEmitted) - 1)
                 ELSE walkEmitted
    IN (/\ walkReply # None
        /\ prior # <<>>
        /\ walkReply[1].value # "EndOfMibView"
        /\ StartsWith(walkReply[1].oid, walk.base_oid)
        /\ OidLe(walkReply[1].oid, prior[Len(prior)].oid))
       => /\ walkLast = PollNonIncreasing(prior[Len(prior)].oid, walkReply[1].oid)
          /\ walk.done
          /\ walkEnd = "NonIncreasingOid"

\* the second varbind of a GETBULK response repeated the OID of the first
C7_Witness ==
    /\ walk.kind = "BulkWalk"
    /\ walk.buffer_idx = 2
    /\ walkLast.kind = "NonIncreasingOid"
    /\ walkLast.oid = walkLast.previous
    /\ walkEmitted # <<>>
    /\ walkEmitted[Len(walkEmitted)].oid = walkLast.previous

\* the OID a request issued now must carry: the last emitted OID, or the
\* base OID when nothing has been emitted
LastEmittedOrBase ==
    IF walkEmitted = <<>> THEN walk.base_oid
    ELSE walkEmitted[Len(walkEmitted)].oid

\* a varbind-level rule (not an empty response or a request error) ended the walk
EndedOnVarBind == walkEnd \in {"EndOfMibView", "SubtreeExit", "NonIncreasingOid"}

\* the buffered varbinds examined so far are buffer[1..buffer_idx]; all of
\* them but a terminating one were emitted, in buffer order, as the latest
\* Ok items
C19_BufferDrainedInOrder ==
    walk.kind = "BulkWalk" =>
        LET k == IF EndedOnVarBind THEN walk.buffer_idx - 1 ELSE walk.buffer_idx
            n == Len(walkEmitted)
        IN /\ walk.buffer_idx <= Len(walk.buffer)
           /\ k <= n
           /\ \A j \in 1..k : walkEmitted[n - k + j] = walk.buffer[j]
           /\ ~walk.done => walkLast.kind \in {"Ok", "Pending"}

\* a GETBULK is issued only when the buffer has been consumed, with
\* non_repeaters 0, on the last emitted OID (the base OID at first)
C19_RequestStep ==
    (walk.kind = "BulkWalk" /\ walkRequests' # walkRequests)
        => /\ walk.buffer_idx = Len(walk.buffer)
           /\ walkRequests' = Append(walkRequests,
                [op |-> "get_bulk", oid |-> LastEmittedOrBase, non_repeaters |-> 0])

\* each poll examines at most the next buffered varbind, and a finished
\* stream emits nothing more
C19_ExamineStep ==
    /\ (walk.kind = "BulkWalk" /\ walkReply' # None)
          => /\ IF walk.buffer_idx < Len(walk.buffer)
                THEN /\ walk'.buffer = walk.buffer
                     /\ walk'.buffer_idx = walk.buffer_idx + 1
                     /\ walkRequests' = walkRequests
                ELSE walk'.buffer_idx = 1
             /\ walkReply'[1] = walk'.buffer[walk'.buffer_idx]
    /\ walk.done => walkEmitted' = walkEmitted /\ walkRequests' = walkRequests

\* C19: BulkWalk issues each GETBULK with non_repeaters = 0 on the last
\* emitted OID (the base OID for the first request) and only once every
\* buffered varbind has been consumed; it examines the buffered varbinds one
\* per poll in the order received, and after a terminating varbind nothing
\* more of that response is emitted.
C19_BulkWalkDrainsBuffer ==
    []C19_BufferDrainedInOrder /\ [][C19_RequestStep /\ C19_ExamineStep]_vars

\* the second GETBULK response began with a terminating varbind and the
\* emittable varbind after it was left in the buffer
C19_Witness ==
    /\ walk.kind = "BulkWalk"
    /\ walk.done
    /\ EndedOnVarBind
    /\ Len(walkRequests) = 2
    /\ Len(walkEmitted) = 2
    /\ walk.buffer_idx = 1
    /\ Len(walk.buffer) = 2
    /\ walk.buffer[2].value # "EndOfMibView"
    /\ StartsWith(walk.buffer[2].oid, walk.base_oid)
    /\ OidLt(walkEmitted[2].oid, walk.buffer[2].oid)

\* C20: a reply whose value is EndOfMibView ends the stream cleanly, else a
\* reply whose OID is outside the base subtree does, whatever its OID is
\* relative to the last emitted OID; NonIncreasingOid is returned only for a
\* reply that is not EndOfMibView and lies in the base subtree.
C20_RuleOrder ==
    /\ (walkReply # None /\ walkReply[1].value = "EndOfMibView")
          => walkLast = PollEnd /\ walk.done /\ walkEnd = "EndOfMibView"
    /\ (/\ walkReply # None
        /\ walkReply[1].value # "EndOfMibView"
        /\ ~StartsWith(walkReply[1].oid, walk.base_oid))
          => walkLast = PollEnd /\ walk.done /\ walkEnd = "SubtreeExit"
    /\ walkLast.kind = "NonIncreasingOid"
          => /\ walkReply # None
             /\ walkReply[1].value # "EndOfMibView"
             /\ StartsWith(walkReply[1].oid, walk.base_oid)

\* an EndOfMibView reply repeating the last emitted OID ended the walk cleanly
C20_Witness ==
    /\ walkEnd = "EndOfMibView"
    /\ walkLast = PollEnd
    /\ walkEmitted # <<>>
    /\ walkReply # None
    /\ walkReply[1].oid = walkEmitted[Len(walkEmitted)].oid

\* C21: every OID a GETNEXT walk emits is strictly greater than the OID its
\* GETNEXT request was issued on, the first request (on the base OID)
\* included, so a first reply equal to the base OID is not emitted.
C21_EmittedGreaterThanRequest ==
    walk.kind = "Walk" =>
        \A i \in 1..Len(walkEmitted) :
            /\ i <= Len(walkRequests)
            /\ OidLt(walkRequests[i].oid, walkEmitted[i].oid)

\* the poll has just returned an error item for a failed request
ErrorItem == walkLast.kind \in RequestErrors

C22_ErrorEndsStream ==
    /\ ErrorItem => walk.done /\ walkEnd = "RequestError"
    /\ walkEnd = "RequestError" => walk.done /\ (ErrorItem \/ walkLast = PollEnd)

C22_DoneStep ==
    /\ walk.done
          => /\ walkLast' = PollEnd
             /\ walkRequests' = walkRequests
             /\ walkEmitted' = walkEmitted
             /\ walk' = walk
    /\ (~walk.done /\ walkEnd' = "RequestError")
          => /\ ErrorItem'
             /\ walkEmitted' = walkEmitted

\* C22: when the request of a walk step fails, that poll yields the error as
\* an Err item and finishes the stream; a finished stream (whatever finished
\* it) answers every later poll with None, changes nothing and sends no
\* request, so the error is yielded once.
C22_ErrorOnceThenNone == []C22_ErrorEndsStream /\ [][C22_DoneStep]_vars

\* after two items the third request timed out, and the stream was polled
\* again and returned None
C22_Witness ==
    /\ walkEnd = "RequestError"
    /\ walkLast = PollEnd
    /\ Len(walkEmitted) = 2
    /\ Len(walkRequests) = 3

C23_EmptyEnds ==
    walkEnd = "EmptyResponse"
        => /\ walk.kind = "BulkWalk"
           /\ walk.done
           /\ walkLast = PollEnd
           /\ walkReply = None

C23_EmptyStep ==
    /\ (walkEnd # "EmptyResponse" /\ walkEnd' = "EmptyResponse")
          => /\ walkEmitted' = walkEmitted
             /\ walk'.buffer = walk.buffer
    /\ walkEnd = "EmptyResponse"
          => walkRequests' = walkRequests /\ walkEmitted' = walkEmitted

\* C23: a GETBULK response with no varbinds finishes the BulkWalk: that poll
\* returns None, no item or error is yielded for it, and no request is
\* issued afterwards.
C23_EmptyResponseEndsCleanly == []C23_EmptyEnds /\ [][C23_EmptyStep]_vars

\* the second GETBULK of a BulkWalk that had emitted two items came back empty
C23_Witness ==
    /\ walkEnd = "EmptyResponse"
    /\ Len(walkRequests) = 2
    /\ Len(walkEmitted) = 2


(***************************************************************************)
(* SharedUdpTransport and SharedUdpHandle (src/transport/shared.rs)        *)
(***************************************************************************)
MaxTime == 2
MaxHandles == 1
\* the requests of the model (each is one send followed by one recv)
CallIds == {1, 2}
ReqIds == {1, 2}
Addrs == {"a1", "a2"}
Timeouts == {1, 2}
\* self.target of the handles
Target == "a1"

\* the receiving half of a oneshot channel
RxEmpty == [st |-> "empty", id |-> 0, source |-> ""]
RxClosed == [st |-> "closed", id |-> 0, source |-> ""]
RxValue(id, source) == [st |-> "value", id |-> id, source |-> source]

NoCall == [state |-> "idle", request_id |-> 0, deadline |-> 0, rx |-> RxEmpty,
           got |-> 0]

\* PendingRequest { target, sender, deadline }
PendingRequest(target, sender, deadline) ==
    [target |-> target, sender |-> sender, deadline |-> deadline]

\* what recv_from hands the loop: a datagram with an extractable request-id,
\* a datagram without one, or a socket error
Datagrams == [kind : {"response"}, id : ReqIds, source : Addrs]
                \cup {[kind |-> "malformed", id |-> 0, source |-> a] : a \in Addrs}
                \cup {[kind |-> "error", id |-> 0, source |-> ""]}

NoDispatch == [kind |-> "none", id |-> 0, source |-> "", to |-> 0, warned |-> FALSE]
Dispatch(kind, d, to) ==
    [kind |-> kind, id |-> d.id, source |-> d.source, to |-> to, warned |-> FALSE]

\* the loop's source check: whether "response source address mismatch" is logged
SourceMismatchWarning(source, target) ==
    warn_on_source_mismatch /\ source # target

\* a loop that hands the waiter the address the request was sent to
SentToWaiterTarget(d, pending_req) == RxValue(d.id, pending_req.target)

\* pending_req.sender.send((data, source)): what the waiter's channel holds
SentToWaiter(d, pending_req) == RxValue(d.id, d.source)

\* HashMap::remove
MapRemoveNothing(map, key) == map
MapRemove(map, key) == [k \in DOMAIN map \ {key} |-> map[k]]

\* HashMap::insert
MapInsert(map, key, value) ==
    [k \in DOMAIN map \cup {key} |-> IF k = key THEN value ELSE map[k]]

\* dropping the oneshot senders held by entries that left the map: a receiver
\* still waiting on an empty channel sees it closed
DropSenders(cs, senders) ==
    [c \in CallIds |->
        IF c \in senders /\ cs[c].state = "waiting" /\ cs[c].rx.st = "empty"
        THEN [cs[c] EXCEPT !.rx = RxClosed]
        ELSE cs[c]]

SendersOf(map, keys) == {map[k].sender : k \in keys \cap DOMAIN map}

\* SharedUdpTransport::handle / SharedUdpHandle::clone
NewHandle ==
    /\ UNCHANGED notShared
    /\ transportAlive \/ handles > 0
    /\ handles < MaxHandles
    /\ handles' = handles + 1
    /\ UNCHANGED <<pending, calls, now, loopPc, lastDispatch, transportAlive,
                   loopRunning>>

\* a request in progress borrows its handle
InProgress == {c \in CallIds : calls[c].state \in {"sent", "waiting"}}

\* drop(SharedUdpHandle)
DropHandle ==
    /\ UNCHANGED notShared
    /\ handles > 0
    /\ handles > 1 \/ InProgress = {}
    /\ handles' = handles - 1
    /\ UNCHANGED <<pending, calls, now, loopPc, lastDispatch, transportAlive,
                   loopRunning>>

\* drop(SharedUdpTransport)
DropTransport ==
    /\ UNCHANGED notShared
    /\ transportAlive
    /\ transportAlive' = FALSE
    /\ UNCHANGED <<pending, calls, now, loopPc, lastDispatch, handles, loopRunning>>

\* SharedUdpHandle::send: the request datagram leaves for the target
Send(c) ==
    /\ UNCHANGED notShared
    /\ handles > 0
    /\ calls[c].state = "idle"
    /\ \A b \in CallIds : b < c => calls[b].state # "idle"
    /\ \E request_id \in ReqIds :
          calls' = [calls EXCEPT ![c] = [@ EXCEPT !.state = "sent",
                                                  !.request_id = request_id]]
    /\ UNCHANGED <<pending, now, loopPc, lastDispatch, transportAlive, handles,
                   loopRunning>>

\* SharedUdpHandle::recv up to the await: the pending entry is registered
RecvRegister(c) ==
    /\ UNCHANGED notShared
    /\ calls[c].state = "sent"
    /\ \E timeout \in Timeouts :
          LET request_id == calls[c].request_id
              deadline == now + timeout
              replaced == SendersOf(pending, {request_id})
              registered == [calls EXCEPT ![c] = [@ EXCEPT !.state = "waiting",
                                                           !.deadline = deadline,
                                                           !.rx = RxEmpty]]
          IN /\ pending' = MapInsert(pending, request_id,
                                     PendingRequest(Target, c, deadline))
             /\ calls' = DropSenders(registered, replaced)
    /\ UNCHANGED <<now, loopPc, lastDispatch, transportAlive, handles, loopRunning>>

\* recv: Ok(Ok((data, source)))
RecvComplete(c) ==
    /\ UNCHANGED notShared
    /\ calls[c].state = "waiting"
    /\ calls[c].rx.st = "value"
    /\ calls' = [calls EXCEPT ![c] = [@ EXCEPT !.state = "ok"]]
    /\ UNCHANGED <<pending, now, loopPc, lastDispatch, transportAlive, handles,
                   loopRunning>>

\* the cleanup of recv's two failure branches: pending.remove(&request_id)
RecvFail(c) ==
    LET request_id == calls[c].request_id
        removed == SendersOf(pending, {request_id})
        returned == [calls EXCEPT ![c] = [@ EXCEPT !.state = "timeout"]]
    IN /\ pending' = MapRemove(pending, request_id)
       /\ calls' = DropSenders(returned, removed)

\* recv: Ok(Err(_)), the channel was closed
RecvChannelClosed(c) ==
    /\ UNCHANGED notShared
    /\ calls[c].state = "waiting"
    /\ calls[c].rx.st = "closed"
    /\ RecvFail(c)
    /\ UNCHANGED <<now, loopPc, lastDispatch, transportAlive, handles, loopRunning>>

\* a timer that never fires
TimerNeverElapses(c) == FALSE

\* tokio::time::timeout(timeout, rx): the timeout has elapsed
TimerElapsed(c) == now >= calls[c].deadline

\* recv: Err(_), the timeout elapsed with nothing in the channel
RecvTimeout(c) ==
    /\ UNCHANGED notShared
    /\ calls[c].state = "waiting"
    /\ calls[c].rx.st = "empty"
    /\ TimerElapsed(c)
    /\ RecvFail(c)
    /\ UNCHANGED <<now, loopPc, lastDispatch, transportAlive, handles, loopRunning>>

\* the future returned by recv is dropped while it awaits the reply
RecvDrop(c) ==
    /\ UNCHANGED notShared
    /\ calls[c].state = "waiting"
    /\ calls' = [calls EXCEPT ![c] = [@ EXCEPT !.state = "dropped"]]
    /\ UNCHANGED <<pending, now, loopPc, lastDispatch, transportAlive, handles,
                   loopRunning>>

\* the entry the loop takes out of the map for a datagram's request-id
TakePending(map, request_id) == MapRemove(map, request_id)

\* what the loop does to the waiters when it discards a datagram (unknown
\* request-id, no extractable request-id) or recv_from fails: it only logs
DiscardClosesWaiters(cs) ==
    [c \in CallIds |->
        IF cs[c].state = "waiting" /\ cs[c].rx.st = "empty"
        THEN [cs[c] EXCEPT !.rx = RxClosed]
        ELSE cs[c]]
Discard(cs) == cs

\* receive loop: recv_from returned; look the request-id up and dispatch
LoopReceive ==
    /\ UNCHANGED notShared
    /\ loopRunning
    /\ loopPc = "recv"
    /\ \E d \in Datagrams :
          IF d.kind = "response" /\ d.id \in DOMAIN pending
          THEN LET pending_req == pending[d.id]
                   c == pending_req.sender
                   warned == SourceMismatchWarning(d.source, pending_req.target)
               IN /\ pending' = TakePending(pending, d.id)
                  /\ IF calls[c].state = "waiting"
                     THEN /\ calls' = [calls EXCEPT ![c] =
                                 [@ EXCEPT !.rx = SentToWaiter(d, pending_req),
                                           !.got = @ + 1]]
                          /\ lastDispatch' = [Dispatch("delivered", d, c)
                                                 EXCEPT !.warned = warned]
                     ELSE /\ calls' = calls
                          /\ lastDispatch' = [Dispatch("receiver_gone", d, c)
                                                 EXCEPT !.warned = warned]
          ELSE /\ lastDispatch' =
                     Dispatch(IF d.kind = "response" THEN "unknown" ELSE d.kind, d, 0)
               /\ calls' = Discard(calls)
               /\ UNCHANGED pending
    /\ loopPc' = "purge"
    /\ UNCHANGED <<now, transportAlive, handles, loopRunning>>

\* a purge that also keeps the entries whose deadline is the current time
RetainedAtDeadline(p, t) == p.deadline >= t

\* the closure of pending.retain: |_, p| p.deadline > now
Retained(p, t) == p.deadline > t

\* receive loop: pending.retain(|_, p| p.deadline > now)
LoopPurge ==
    /\ UNCHANGED notShared
    /\ loopRunning
    /\ loopPc = "purge"
    /\ LET expired == {k \in DOMAIN pending : ~Retained(pending[k], now)}
       IN /\ pending' = [k \in DOMAIN pending \ expired |-> pending[k]]
          /\ calls' = DropSenders(calls, SendersOf(pending, expired))
    /\ loopPc' = "recv"
    /\ lastDispatch' = NoDispatch
    /\ UNCHANGED <<now, transportAlive, handles, loopRunning>>

\* time passes
Tick ==
    /\ UNCHANGED notShared
    /\ now < MaxTime
    /\ now' = now + 1
    /\ UNCHANGED <<pending, calls, loopPc, lastDispatch, transportAlive, handles,
                   loopRunning>>

\* SharedUdpTransportBuilder::warn_on_source_mismatch, called before build:
\* nothing has used the transport yet
WarnOnSourceMismatch ==
    /\ UNCHANGED notSharedConfig
    /\ handles = 0 /\ transportAlive /\ now = 0
    /\ loopPc = "recv" /\ lastDispatch = NoDispatch
    /\ \A c \in CallIds : calls[c].state = "idle"
    /\ \E warn \in BOOLEAN : warn_on_source_mismatch' = warn

\* the state SharedUdpTransportBuilder::build returns, with the default
\* configuration
SharedInit ==
    /\ warn_on_source_mismatch = TRUE
    /\ pending = <<>>
    /\ calls = [c \in CallIds |-> NoCall]
    /\ now = 0
    /\ loopPc = "recv"
    /\ lastDispatch = NoDispatch
    /\ transportAlive = TRUE
    /\ handles = 0
    /\ loopRunning = TRUE

SharedNext ==
    \/ NewHandle \/ DropHandle \/ DropTransport
    \/ \E c \in CallIds :
          \/ Send(c) \/ RecvRegister(c) \/ RecvComplete(c)
          \/ RecvChannelClosed(c) \/ RecvTimeout(c) \/ RecvDrop(c)
    \/ LoopReceive \/ LoopPurge \/ Tick
    \/ WarnOnSourceMismatch

\* the requests made through a handle of a transport that is kept alive,
\* with the default configuration
RecvNext ==
    \/ NewHandle
    \/ \E c \in CallIds :
          \/ Send(c) \/ RecvRegister(c) \/ RecvComplete(c)
          \/ RecvChannelClosed(c) \/ RecvTimeout(c) \/ RecvDrop(c)
    \/ LoopReceive \/ LoopPurge \/ Tick


(***************************************************************************)
(* Properties of the shared transport                                      *)
(***************************************************************************)
\* the loop has just dispatched a datagram in this step
Dispatched == loopPc = "recv" /\ loopPc' = "purge"

\* the calls whose channel receives a datagram in this step
Completed == {c \in CallIds : calls'[c].rx # calls[c].rx /\ calls'[c].rx.st = "value"}

C3_Routing ==
    \A c \in CallIds :
        /\ calls[c].rx.st = "value" => calls[c].rx.id = calls[c].request_id
        /\ calls[c].got <= 1

C3_Dispatch ==
    /\ Cardinality(Completed) <= 1
    /\ Completed # {} => Dispatched /\ lastDispatch'.id \notin DOMAIN pending'
    /\ (Dispatched /\ lastDispatch'.id \notin DOMAIN pending) => calls' = calls

\* C3: a recv(r) call only ever receives a datagram whose request-id is r;
\* the entry is removed on a hit, so a datagram completes at most one call,
\* a call receives at most one datagram, and a datagram that finds no entry
\* (such as a duplicate of a delivered response) completes no call.
C3_Correlation == []C3_Routing /\ [][C3_Dispatch]_vars

\* a call returned its response and a duplicate of it was then dropped
C3_Witness ==
    \E c \in CallIds :
        /\ calls[c].state = "ok"
        /\ calls[c].got = 1
        /\ lastDispatch.kind = "unknown"
        /\ lastDispatch.id = calls[c].request_id

\* C8: once the future returned by recv has been dropped, the pending map
\* holds no entry registered by that call.
C8_DropRemovesEntry ==
    \A c \in CallIds :
        calls[c].state = "dropped"
            => ~\E k \in DOMAIN pending : pending[k].sender = c

\* C9: once the transport and every handle have been dropped, the receive
\* loop task eventually terminates.
C9_LoopTerminates == (~transportAlive /\ handles = 0) ~> ~loopRunning

\* C10: a reply that carries the id of a request whose send has completed and
\* whose timeout has not elapsed is never dropped as an unknown request-id.
C10_ReplyAfterSendDelivered ==
    [][(Dispatched /\ lastDispatch'.kind = "unknown")
          => ~\E c \in CallIds :
                /\ calls[c].request_id = lastDispatch'.id
                /\ \/ calls[c].state = "sent"
                   \/ calls[c].state = "waiting" /\ now < calls[c].deadline]_vars

\* the calls still waiting on an empty channel
Waiting == {c \in CallIds : calls[c].state = "waiting" /\ calls[c].rx.st = "empty"}

\* the loop has just discarded what recv_from returned
Discarded ==
    Dispatched /\ lastDispatch'.kind \in {"malformed", "unknown", "error"}

C11_DiscardLeavesWaiters ==
    Discarded => /\ calls' = calls
                 /\ pending' = pending
                 /\ loopRunning' /\ loopPc' = "purge"

C11_MatchStillDelivered ==
    (Dispatched /\ lastDispatch'.id \in DOMAIN pending)
        => LET c == pending[lastDispatch'.id].sender
           IN /\ lastDispatch'.kind \in {"delivered", "receiver_gone"}
              /\ c \in Waiting
                    => calls'[c].rx = RxValue(lastDispatch'.id, lastDispatch'.source)

C12_NoEntryAfterReturn ==
    \A c \in CallIds :
        calls[c].state \in {"ok", "timeout"}
            => ~\E k \in DOMAIN pending : pending[k].sender = c

\* one call returned its response and another returned Error::Timeout, and
\* the map is empty
C12_Witness ==
    /\ \E c \in CallIds : calls[c].state = "ok"
    /\ \E c \in CallIds : calls[c].state = "timeout"
    /\ DOMAIN pending = {}

\* the loop step for a datagram whose request-id has a pending entry
C31_MatchingStep == Dispatched /\ lastDispatch'.id \in DOMAIN pending

\* C31: a datagram whose request-id matches a pending entry is taken for that
\* entry whatever its source address: the entry's waiter, if still waiting,
\* receives the datagram with the actual source address, no other call is
\* touched, and a source different from the entry's target only produces
\* the warning, and only when warn_on_source_mismatch is set.
C31_SourceMismatchDelivered ==
    [][C31_MatchingStep =>
          LET d == lastDispatch'
              pending_req == pending[d.id]
              c == pending_req.sender
          IN /\ d.to = c
             /\ d.kind \in {"delivered", "receiver_gone"}
             /\ d.warned = (warn_on_source_mismatch /\ d.source # pending_req.target)
             /\ calls[c].state = "waiting" =>
                   /\ d.kind = "delivered"
                   /\ calls'[c].state = "waiting"
                   /\ calls'[c].rx = RxValue(d.id, d.source)
             /\ \A b \in CallIds \ {c} : calls'[b] = calls[b]
    ]_vars

\* a reply from an address other than the target was delivered without a
\* warning (the warning being switched off) and recv returned it
C31_Witness ==
    /\ ~warn_on_source_mismatch
    /\ lastDispatch.kind = "delivered"
    /\ lastDispatch.source # Target
    /\ ~lastDispatch.warned
    /\ calls[lastDispatch.to].state = "ok"
    /\ calls[lastDispatch.to].rx = RxValue(lastDispatch.id, lastDispatch.source)

\* the loop runs its purge in this step
C37_PurgeStep == loopPc = "purge" /\ loopPc' = "recv"

\* the purge removes exactly the entries whose deadline is not later than
\* the current time, and the waiter of a removed entry sees its channel closed
C37_PurgeExact ==
    C37_PurgeStep =>
        /\ DOMAIN pending' = {k \in DOMAIN pending : pending[k].deadline > now}
        /\ \A k \in DOMAIN pending' : pending'[k] = pending[k]
        /\ \A k \in DOMAIN pending \ DOMAIN pending' :
              pending[k].sender \in Waiting
                  => calls'[pending[k].sender].rx = RxClosed

\* a call whose channel was closed can only return Error::Timeout
C37_ClosedReturns ==
    \A c \in CallIds :
        (calls[c].state = "waiting" /\ calls[c].rx.st = "closed")
            => calls'[c].state \in {"waiting", "timeout", "dropped"}

\* C37: the purge run by the receive loop after each receive removes exactly
\* the pending entries whose deadline is not later than the current time and
\* leaves the others in place; a recv call whose entry is purged finds its
\* channel closed and returns Error::Timeout (unless its future is dropped)
\* instead of hanging.
C37_PurgeExpiredOnly ==
    /\ [][C37_PurgeExact /\ C37_ClosedReturns]_vars
    /\ \A c \in CallIds :
          (calls[c].state = "waiting" /\ calls[c].rx.st = "closed")
              ~> (calls[c].state \in {"timeout", "dropped"})

\* the purge has just run and left an entry with a future deadline in place,
\* while another call, whose entry it had removed earlier, returned Timeout
C37_Witness ==
    /\ loopPc = "recv"
    /\ lastDispatch = NoDispatch
    /\ now > 0
    /\ \E k \in DOMAIN pending : pending[k].deadline > now
    /\ \E c \in CallIds : calls[c].state = "timeout" /\ calls[c].rx.st = "closed"

\* recv fails in this step for call c
C38_Fails(c) == calls[c].state = "waiting" /\ calls'[c].state = "timeout"

\* C38: the cleanup a recv call performs when it fails (timeout or closed
\* channel) removes only the pending entry that this call registered: an
\* entry registered by another call stays in the map and that call's channel
\* stays as it was, also when both calls use the same request-id.
C38_CleanupOwnEntryOnly ==
    [][\A c \in CallIds :
          C38_Fails(c) =>
              /\ \A k \in DOMAIN pending :
                    pending[k].sender # c
                        => k \in DOMAIN pending' /\ pending'[k] = pending[k]
              /\ \A b \in CallIds \ {c} : calls'[b] = calls[b]
    ]_vars

\* the outcome of a returned call: Ok carries a datagram with the call's
\* request-id that the loop dispatched to it, Timeout means none was
C39_Outcome ==
    \A c \in CallIds :
        /\ calls[c].state = "ok" =>
              calls[c].rx.st = "value" /\ calls[c].rx.id = calls[c].request_id
        /\ calls[c].state = "timeout" => calls[c].rx.st # "value"

\* a call returns Ok only from a filled channel, and once its timeout has
\* elapsed with nothing in the channel it can return Error::Timeout
C39_Return ==
    \A c \in CallIds :
        /\ (calls[c].state = "waiting" /\ calls[c].rx.st = "value")
              => calls'[c].state \in {"waiting", "ok", "dropped"}
        /\ (calls[c].state = "waiting" /\ calls'[c].state = "ok")
              => calls[c].rx.st = "value"

MaxSubtrees == 2
MaxEntries == 2

\* a nine-arc OID, so that its last arc is governed by the second mask byte
LongOid(a, b) == <<1, 1, 1, 1, 1, 1, 1, a, b>>
VacmOids == Oids \cup {LongOid(a, b) : a \in Arcs, b \in Arcs}

\* the (oid, mask) pairs handed to include / include_masked / exclude /
\* exclude_masked
SubtreeArgs ==
    {<<(<<1>>), <<>>>>, <<(<<1, 2>>), <<>>>>,
     <<(<<1, 2>>), <<128>>>>, <<(<<1, 2>>), <<64>>>>,
     <<LongOid(1, 1), <<255>>>>, <<LongOid(1, 1), <<254>>>>,
     <<LongOid(1, 1), <<255, 0>>>>}

ViewSubtrees == {Subtree(a[1], a[2], inc) : a \in SubtreeArgs, inc \in BOOLEAN}

\* the subtrees the view of the configuration is built from
BuilderSubtrees ==
    {t \in ViewSubtrees :
        <<t.oid, t.mask>> \in {<<(<<1>>), <<>>>>, <<(<<1, 2>>), <<>>>>,
                               <<(<<1, 2>>), <<128>>>>,
                               <<LongOid(1, 1), <<255, 0>>>>}}

\* names a view is registered under, and names check_access is asked about
RegisteredNames == {"", "v"}
AskedNames == {None, Some(""), Some("v"), Some("u")}

NoQuery == [op |-> "none"]

\* View::include / include_masked / exclude / exclude_masked: push a subtree
ViewAdd ==
    /\ UNCHANGED notVacm
    /\ DOMAIN vacmViews = {}
    /\ Len(vacmView) < MaxSubtrees
    /\ \E subtree \in BuilderSubtrees : vacmView' = Append(vacmView, subtree)
    /\ vacmLast' = NoQuery
    /\ UNCHANGED <<vacmViews, vacmAccess>>

\* VacmConfig::add_view: the view built so far moves into the configuration
AddView ==
    /\ UNCHANGED notVacm
    /\ DOMAIN vacmViews = {}
    /\ \E name \in RegisteredNames :
          vacmViews' = MapInsert(vacmViews, name, vacmView)
    /\ vacmView' = <<>>
    /\ vacmLast' = NoQuery
    /\ UNCHANGED vacmAccess

\* a call of ViewSubtree::matches, on a subtree of its own
MatchesCall ==
    /\ UNCHANGED notVacm
    /\ vacmView = <<>>
    /\ DOMAIN vacmViews = {}
    /\ \E subtree \in ViewSubtrees, oid \in VacmOids :
          vacmLast' = [op |-> "matches", subtree |-> subtree, oid |-> oid,
                       result |-> SubtreeMatches(subtree, oid)]
    /\ UNCHANGED <<vacmView, vacmViews, vacmAccess>>

\* a call of VacmConfig::check_access
CheckAccessCall ==
    /\ UNCHANGED notVacm
    /\ \E view_name \in AskedNames, oid \in VacmOids :
          vacmLast' = [op |-> "check_access", view_name |-> view_name, oid |-> oid,
                       result |-> check_access(vacmViews, view_name, oid)]
    /\ UNCHANGED <<vacmView, vacmViews, vacmAccess>>

ViewNext == ViewAdd \/ AddView \/ MatchesCall \/ CheckAccessCall

\* Bytes values used as context names and context prefixes
Contexts == {<<>>, <<1>>, <<1, 2>>}
Groups == {"g", "h"}
SecurityModels == {"Any", "V1", "V2c", "Usm"}
SecurityLevels == {"NoAuthNoPriv", "AuthNoPriv", "AuthPriv"}

\* SecurityModel as u8 is not used by get_access; SecurityLevel as u8 is
LevelScore(level) ==
    CASE level = "NoAuthNoPriv" -> 1
      [] level = "AuthNoPriv" -> 2
      [] level = "AuthPriv" -> 3

AccessEntry(group, prefix, model, level, match, view) ==
    [group_name |-> group, context_prefix |-> prefix, security_model |-> model,
     security_level |-> level, context_match |-> match,
     read_view |-> view, write_view |-> view, notify_view |-> view]

\* the entries add_access is called with
AccessEntries ==
    {AccessEntry("g", <<>>, "Any", "NoAuthNoPriv", "Exact", "r1"),
     AccessEntry("g", <<>>, "V2c", "NoAuthNoPriv", "Exact", "r2"),
     AccessEntry("g", <<1>>, "V2c", "NoAuthNoPriv", "Prefix", "r1"),
     AccessEntry("g", <<1, 2>>, "V2c", "NoAuthNoPriv", "Prefix", "r2"),
     AccessEntry("g", <<1, 2>>, "V2c", "NoAuthNoPriv", "Prefix", "r1"),
     AccessEntry("g", <<1, 2>>, "V2c", "AuthPriv", "Prefix", "r1"),
     AccessEntry("g", <<1, 2>>, "Any", "AuthNoPriv", "Exact", "r1"),
     AccessEntry("g", <<1, 2>>, "Usm", "AuthNoPriv", "Exact", "r2"),
     AccessEntry("g", <<>>, "Any", "AuthPriv", "Prefix", "r2"),
     AccessEntry("h", <<>>, "Any", "NoAuthNoPriv", "Exact", "r1")}

\* <[u8]>::starts_with
starts_with(bytes, prefix) ==
    /\ Len(prefix) <= Len(bytes)
    /\ \A i \in 1..Len(prefix) : bytes[i] = prefix[i]

\* VacmConfig::context_matches
context_matches(prefix, context, mode) ==
    IF mode = "Exact" THEN prefix = context ELSE starts_with(context, prefix)

\* the filter closure of get_access
Eligible(e, group, context, model, level) ==
    /\ e.group_name = group
    /\ context_matches(e.context_prefix, context, e.context_match)
    /\ (e.security_model = model \/ e.security_model = "Any")
    /\ LevelScore(level) >= LevelScore(e.security_level)

\* the key closure of get_access with the level score left out
PreferenceKeyWithoutLevel(e, model) ==
    <<IF e.security_model = model THEN 1 ELSE 0,
      IF e.context_match = "Exact" THEN 1 ELSE 0,
      Len(e.context_prefix),
      0>>

\* the key closure of get_access with the level score first
PreferenceKeyLevelFirst(e, model) ==
    <<LevelScore(e.security_level),
      IF e.security_model = model THEN 1 ELSE 0,
      IF e.context_match = "Exact" THEN 1 ELSE 0,
      Len(e.context_prefix)>>

\* the key closure of get_access:
\* (model_score, match_score, prefix_len, level_score)
PreferenceKey(e, model) ==
    <<IF e.security_model = model THEN 1 ELSE 0,
      IF e.context_match = "Exact" THEN 1 ELSE 0,
      Len(e.context_prefix),
      LevelScore(e.security_level)>>

\* Ord for tuples: lexicographic
TupleLt(a, b) ==
    \E i \in 1..Len(a) :
        /\ \A j \in 1..(i - 1) : a[j] = b[j]
        /\ a[i] < b[i]

\* Iterator::max_by_key from element k on: a later element replaces the best
\* so far unless its key is smaller
RECURSIVE max_by_key(_, _, _, _)
max_by_key(es, model, k, best) ==
    IF k > Len(es) THEN best
    ELSE max_by_key(es, model, k + 1,
            IF best = None
               \/ ~TupleLt(PreferenceKey(es[k], model), PreferenceKey(best[1], model))
            THEN Some(es[k])
            ELSE best)

\* VacmConfig::get_access
get_access(access_entries, group, context, model, level) ==
    max_by_key(SelectSeq(access_entries,
                         LAMBDA e : Eligible(e, group, context, model, level)),
               model, 1, None)

\* VacmConfig::add_access
AddAccess ==
    /\ UNCHANGED notVacm
    /\ Len(vacmAccess) < MaxEntries
    /\ \E entry \in AccessEntries : vacmAccess' = Append(vacmAccess, entry)
    /\ vacmLast' = NoQuery
    /\ UNCHANGED <<vacmView, vacmViews>>

\* a call of VacmConfig::get_access
GetAccessCall ==
    /\ UNCHANGED notVacm
    /\ \E group \in Groups, context \in Contexts,
          model \in SecurityModels \ {"V1"}, level \in SecurityLevels :
          vacmLast' = [op |-> "get_access", group |-> group, context |-> context,
                       model |-> model, level |-> level,
                       result |-> get_access(vacmAccess, group, context, model, level)]
    /\ UNCHANGED <<vacmView, vacmViews, vacmAccess>>

AccessNext == AddAccess \/ GetAccessCall

\* VacmConfig::new and View::new
VacmInit ==
    /\ vacmView = <<>>
    /\ vacmViews = <<>>
    /\ vacmAccess = <<>>
    /\ vacmLast = NoQuery

(***************************************************************************)
(* The shared request-id counter (src/transport/shared.rs)                 *)
(***************************************************************************)
\* width of the counter in bits (32 in the code)
IdBits == 3
IdMin == -(2 ^ (IdBits - 1))
IdMax == (2 ^ (IdBits - 1)) - 1
I32 == IdMin..IdMax

\* two's complement wrap-around into the counter's range
Wrap(x) == ((x - IdMin) % (2 ^ IdBits)) + IdMin

\* i32::wrapping_abs
wrapping_abs(x) == IF x < 0 THEN Wrap(-x) ELSE x

\* a choice of two values that keeps the first
KeepFirst(a, b) == a

\* Ord::max
max(a, b) == IF a >= b THEN a ELSE b

\* a counter that stops at the largest value
FetchAddSaturating(counter, val) == IF counter + val > IdMax THEN IdMax ELSE counter + val

\* AtomicI32::fetch_add: the value stored afterwards (the old one is returned)
fetch_add(counter, val) == Wrap(counter + val)

\* the allocations the model follows: one full cycle of the counter and one more
MaxAllocs == (2 ^ IdBits) + 1

\* SystemTime::now().duration_since(UNIX_EPOCH): Err for a clock before the
\* epoch (None), else the duration, whose nanosecond count is wider than i32
ClockReadings == {None} \cup {Some(d) : d \in 0..((2 ^ (IdBits + 1)) - 1)}

\* .map(|d| d.as_nanos() as i32).unwrap_or(1): the cast keeps the low bits
NanosOf(reading) == IF reading = None THEN 1 ELSE Wrap(reading[1])

\* nanos.wrapping_abs().max(1)
initial_request_id(reading) == max(wrapping_abs(NanosOf(reading)), 1)

\* SharedUdpTransportBuilder::build: the counter starts at initial_request_id
BuildCounter ==
    /\ UNCHANGED notAlloc
    /\ next_request_id = None
    /\ \E reading \in ClockReadings :
          next_request_id' = Some(initial_request_id(reading))
    /\ UNCHANGED allocated

\* SharedUdpHandle::alloc_request_id on a handle for some target
AllocRequestId ==
    /\ UNCHANGED notAlloc
    /\ next_request_id # None
    /\ Len(allocated) < MaxAllocs
    /\ \E target \in Addrs :
          allocated' = Append(allocated, [id |-> next_request_id[1], target |-> target])
    /\ next_request_id' = Some(fetch_add(next_request_id[1], 1))

AllocNext == BuildCounter \/ AllocRequestId

AllocInit ==
    /\ next_request_id = None
    /\ allocated = <<>>

(***************************************************************************)
(* Properties of the request-id counter                                    *)
(***************************************************************************)
\* C29: any two alloc_request_id calls on handles of one transport, for the
\* same or different targets, that are fewer than 2^IdBits allocations apart
\* return different ids; so all ids are different while no more than
\* 2^IdBits have been allocated.
C29_AllocatedIdsDistinct ==
    \A i, j \in 1..Len(allocated) :
        (i < j /\ j - i < 2 ^ IdBits) => allocated[i].id # allocated[j].id

\* a full cycle of ids has been handed out to handles of both targets, the
\* counter having wrapped from the largest to the smallest value
C29_Witness ==
    /\ Len(allocated) = 2 ^ IdBits
    /\ \E i \in 1..(Len(allocated) - 1) :
          allocated[i].id = IdMax /\ allocated[i + 1].id = IdMin
    /\ \E i, j \in 1..Len(allocated) :
          allocated[i].target # allocated[j].target /\ j = i + 1

\* C30 as claimed: the ids returned by successive alloc_request_id calls are
\* strictly increasing, for every initial counter value in [1, IdMax].
C30_StrictlyIncreasing ==
    \A i \in 1..(Len(allocated) - 1) : allocated[i].id < allocated[i + 1].id

\* C30 amended: the first id is in [1, IdMax]; each later id is the previous
\* one plus 1, except that the id after IdMax is IdMin; so the ids are
\* strictly increasing up to and including IdMax and again from IdMin on.
C30_IncreasingUntilWrap ==
    /\ allocated # <<>> => allocated[1].id \in 1..IdMax
    /\ \A i \in 1..(Len(allocated) - 1) :
          allocated[i + 1].id =
              (IF allocated[i].id = IdMax THEN IdMin ELSE allocated[i].id + 1)

\* the counter started at the largest value, so the second id is the smallest
C30_Witness ==
    /\ Len(allocated) >= 3
    /\ allocated[1].id = IdMax
    /\ allocated[2].id = IdMin
    /\ allocated[3].id = IdMin + 1

\* C40: for every system clock value (a nanosecond count whose truncation is
\* 0 or IdMin, a clock before the epoch, or any other) the initial request
\* id chosen by build lies in [1, IdMax], so the first id handed out by a
\* shared transport is never zero or negative.
C40_InitialIdPositive ==
    /\ \A reading \in ClockReadings : initial_request_id(reading) \in 1..IdMax
    /\ (next_request_id # None /\ allocated = <<>>) => next_request_id[1] \in 1..IdMax
    /\ allocated # <<>> => allocated[1].id \in 1..IdMax

\* the transport was built from a clock whose truncated nanosecond count is
\* 0 or IdMin, or from a clock before the epoch: the first id handed out is 1
C40_Witness ==
    /\ Len(allocated) = 1
    /\ allocated[1].id = 1
    /\ NanosOf(Some(2 ^ IdBits)) = 0
    /\ NanosOf(Some(2 ^ (IdBits - 1))) = IdMin
    /\ \A reading \in {None, Some(2 ^ IdBits), Some(2 ^ (IdBits - 1))} :
          initial_request_id(reading) = 1

(***************************************************************************)
(* Properties of View and VacmConfig                                       *)
(***************************************************************************)
\* the orders a sequence of n elements can be put in
Perms(n) == {f \in [1..n -> 1..n] : \A i, j \in 1..n : f[i] = f[j] => i = j}
Permuted(seq, f) == [i \in 1..Len(seq) |-> seq[f[i]]]

ViewsOfState == {vacmView} \cup {vacmViews[n] : n \in DOMAIN vacmViews}

\* C25: for every view V of the state, OID x and subtree s, masked or not:
\* if V contains x, so does V with s added as an include; if V does not
\* contain x, neither does V with s added as an exclude.
C25_Monotone ==
    \A V \in ViewsOfState, x \in VacmOids, a \in SubtreeArgs :
        /\ ViewContains(V, x)
              => ViewContains(Append(V, Subtree(a[1], a[2], TRUE)), x)
        /\ ~ViewContains(V, x)
              => ~ViewContains(Append(V, Subtree(a[1], a[2], FALSE)), x)

\* a masked include that does not match an OID was added to a view that
\* contains the OID
C25_Witness ==
    /\ Len(vacmView) = 2
    /\ vacmView[2].included
    /\ vacmView[2].mask # <<>>
    /\ \E x \in VacmOids :
          /\ ViewContains(<<vacmView[1]>>, x)
          /\ ~SubtreeMatches(vacmView[2], x)
          /\ ViewContains(vacmView, x)

\* bit n (0 = least significant) of a byte
C28_BitOfByte(byte, n) == (byte \div (2 ^ n)) % 2

\* position i (0-based) has mask bit 1, or lies beyond the end of the mask
C28_MustMatch(mask, i) ==
    \/ i \div 8 >= Len(mask)
    \/ C28_BitOfByte(mask[(i \div 8) + 1], 7 - (i % 8)) = 1

\* C28: matches(oid) is true iff oid has at least as many arcs as the subtree
\* OID and agrees with it at every position whose mask bit (bit 7 - (i mod 8)
\* of mask byte i div 8) is 1 or lies beyond the end of the mask.
C28_MatchesIff ==
    vacmLast.op = "matches" =>
        LET subtree == vacmLast.subtree
            oid == vacmLast.oid
        IN vacmLast.result =
              (/\ Len(oid) >= Len(subtree.oid)
               /\ \A i \in 0..(Len(subtree.oid) - 1) :
                     C28_MustMatch(subtree.mask, i)
                        => oid[i + 1] = subtree.oid[i + 1])

\* a nine-arc OID differing from the subtree OID in its last arc matched,
\* that position being a wildcard of the second mask byte
C28_Witness ==
    /\ vacmLast.op = "matches"
    /\ vacmLast.result
    /\ vacmLast.subtree.mask = <<255, 0>>
    /\ Len(vacmLast.oid) = 9
    /\ vacmLast.oid[9] # vacmLast.subtree.oid[9]

\* eligibility and preference as the claim states them
C26_Eligible(e, q) ==
    /\ e.group_name = q.group
    /\ IF e.context_match = "Exact"
       THEN e.context_prefix = q.context
       ELSE /\ Len(e.context_prefix) <= Len(q.context)
            /\ SubSeq(q.context, 1, Len(e.context_prefix)) = e.context_prefix
    /\ e.security_model \in {q.model, "Any"}
    /\ LevelScore(q.level) >= LevelScore(e.security_level)

C26_Tuple(e, q) ==
    <<IF e.security_model = q.model THEN 1 ELSE 0,
      IF e.context_match = "Exact" THEN 1 ELSE 0,
      Len(e.context_prefix),
      LevelScore(e.security_level)>>

C26_Less(a, b) ==
    \/ a[1] < b[1]
    \/ a[1] = b[1] /\ a[2] < b[2]
    \/ a[1] = b[1] /\ a[2] = b[2] /\ a[3] < b[3]
    \/ a[1] = b[1] /\ a[2] = b[2] /\ a[3] = b[3] /\ a[4] < b[4]

\* C26: get_access returns None when no entry is eligible, and otherwise an
\* eligible entry whose tuple (model is the request's, match is Exact, prefix
\* length, level) no eligible entry exceeds lexicographically.
C26_BestEligibleEntry ==
    vacmLast.op = "get_access" =>
        LET q == vacmLast
            eligible == {k \in 1..Len(vacmAccess) : C26_Eligible(vacmAccess[k], q)}
        IN IF eligible = {}
           THEN q.result = None
           ELSE /\ q.result # None
                /\ \E k \in eligible : vacmAccess[k] = q.result[1]
                /\ \A j \in eligible :
                      ~C26_Less(C26_Tuple(q.result[1], q), C26_Tuple(vacmAccess[j], q))

\* the entry returned has the request's model and Prefix match, and beat an
\* eligible Any / Exact entry of higher level
C26_Witness ==
    /\ vacmLast.op = "get_access"
    /\ vacmLast.result # None
    /\ vacmLast.result[1].security_model = vacmLast.model
    /\ vacmLast.result[1].context_match = "Prefix"
    /\ \E k \in 1..Len(vacmAccess) :
          /\ C26_Eligible(vacmAccess[k], vacmLast)
          /\ vacmAccess[k].security_model = "Any"
          /\ vacmAccess[k].context_match = "Exact"
          /\ LevelScore(vacmAccess[k].security_level)
                > LevelScore(vacmLast.result[1].security_level)

\* get_access gives the same answer for every order of the entries
C27_SameForEveryOrder ==
    \A f \in Perms(Len(vacmAccess)) :
        get_access(Permuted(vacmAccess, f), vacmLast.group, vacmLast.context,
                   vacmLast.model, vacmLast.level) = vacmLast.result

\* C27 as claimed: for any collection of access entries and any request,
\* get_access returns the same entry whatever the order the entries were
\* added in.
C27_OrderIndependent ==
    vacmLast.op = "get_access" => C27_SameForEveryOrder

\* no two entries agree on group, context prefix, context match, security
\* model and security level
C27_DistinctKeys ==
    \A i, j \in 1..Len(vacmAccess) :
        (/\ vacmAccess[i].group_name = vacmAccess[j].group_name
         /\ vacmAccess[i].context_prefix = vacmAccess[j].context_prefix
         /\ vacmAccess[i].context_match = vacmAccess[j].context_match
         /\ vacmAccess[i].security_model = vacmAccess[j].security_model
         /\ vacmAccess[i].security_level = vacmAccess[j].security_level)
        => i = j

\* C27 amended: the same, for a collection in which no two entries agree on
\* (group, context prefix, context match, security model, security level).
C27_OrderIndependentDistinctKeys ==
    (vacmLast.op = "get_access" /\ C27_DistinctKeys) => C27_SameForEveryOrder

\* two eligible entries with different keys and different views, the one
\* returned added first
C27_Witness ==
    /\ vacmLast.op = "get_access"
    /\ C27_DistinctKeys
    /\ Len(vacmAccess) = 2
    /\ C26_Eligible(vacmAccess[1], vacmLast)
    /\ C26_Eligible(vacmAccess[2], vacmLast)
    /\ vacmAccess[1].read_view # vacmAccess[2].read_view
    /\ vacmLast.result = Some(vacmAccess[1])


(***************************************************************************)
(* BER integer encoders (src/ber/encode.rs)                                *)
(***************************************************************************)
\* the byte values the inputs are built from: every byte of a value is one of
\* these, so each test of the code (== 0, == 0xFF, & 0x80) goes both ways
ByteValues == {0, 127, 128, 255}

\* value.to_be_bytes() of an n-byte integer
BytesOf(n) == [1..n -> ByteValues]

\* b & 0x80 != 0
TopBit(b) == b >= 128

\* a fresh EncodeBuf: nothing pushed yet (the model follows one push)
NoEncoding == [fn |-> "none", value |-> <<>>, len |-> 0, out |-> <<>>]

\* a test that drops a leading 0x00 / 0xFF whatever byte follows it
RedundantSignByteAnyNext(bytes, start, negative) ==
    IF negative THEN bytes[start + 1] = 255 ELSE bytes[start + 1] = 0

\* the two while conditions of encode_integer_stack (start counts from 0)
RedundantSignByte(bytes, start, negative) ==
    IF negative
    THEN bytes[start + 1] = 255 /\ TopBit(bytes[start + 2])
    ELSE bytes[start + 1] = 0 /\ ~TopBit(bytes[start + 2])

\* the while loops of encode_integer_stack; value >= 0 is the sign bit of the
\* first byte being clear
RECURSIVE IntegerStart(_, _)
IntegerStart(bytes, start) ==
    IF start < 3 /\ RedundantSignByte(bytes, start, TopBit(bytes[1]))
    THEN IntegerStart(bytes, start + 1)
    ELSE start

\* encode_integer_stack: (array, number of valid bytes)
encode_integer_stack(bytes) ==
    [arr |-> bytes, len |-> 4 - IntegerStart(bytes, 0)]

\* while start < limit && bytes[start] == 0 { start += 1 }
RECURSIVE SkipZeros(_, _, _)
SkipZeros(bytes, start, limit) ==
    IF start < limit /\ bytes[start + 1] = 0
    THEN SkipZeros(bytes, start + 1, limit)
    ELSE start

\* value == 0
IsZero(bytes) == \A i \in 1..Len(bytes) : bytes[i] = 0

\* encode_unsigned32_stack
encode_unsigned32_stack(bytes) ==
    IF IsZero(bytes)
    THEN [arr |-> <<0, 0, 0, 0, 0>>, len |-> 1]
    ELSE LET start == SkipZeros(bytes, 0, 3)
             result == <<0>> \o bytes
         IN IF TopBit(bytes[start + 1])
            THEN [arr |-> result, len |-> 5 - start]
            ELSE [arr |-> result, len |-> 4 - start]

\* encode_integer64_stack
encode_integer64_stack(bytes) ==
    IF IsZero(bytes)
    THEN [arr |-> <<0, 0, 0, 0, 0, 0, 0, 0, 0>>, len |-> 1]
    ELSE LET start == SkipZeros(bytes, 0, 7)
             result == <<0>> \o bytes
         IN IF TopBit(bytes[start + 1])
            THEN [arr |-> result, len |-> 9 - start]
            ELSE [arr |-> result, len |-> 8 - start]

\* &arr[N - len..]: the valid bytes are at the end of the array
ValidBytes(r) == SubSeq(r.arr, Len(r.arr) - r.len + 1, Len(r.arr))

Encoding(fn, bytes, r) ==
    [fn |-> fn, value |-> bytes, len |-> r.len, out |-> ValidBytes(r)]

\* EncodeBuf::push_integer
PushInteger ==
    /\ UNCHANGED notEncode
    /\ encoded = NoEncoding
    /\ \E bytes \in BytesOf(4) :
          encoded' = Encoding("integer", bytes, encode_integer_stack(bytes))

\* EncodeBuf::push_unsigned32
PushUnsigned32 ==
    /\ UNCHANGED notEncode
    /\ encoded = NoEncoding
    /\ \E bytes \in BytesOf(4) :
          encoded' = Encoding("unsigned32", bytes, encode_unsigned32_stack(bytes))

\* EncodeBuf::push_integer64
PushInteger64 ==
    /\ UNCHANGED notEncode
    /\ encoded = NoEncoding
    /\ \E bytes \in BytesOf(8) :
          encoded' = Encoding("integer64", bytes, encode_integer64_stack(bytes))

EncodeNext == PushInteger \/ PushUnsigned32 \/ PushInteger64

EncodeInit == encoded = NoEncoding

(***************************************************************************)
(* Properties of the integer encoders                                      *)
(***************************************************************************)
\* the last k bytes of a byte string
C32_Suffix(bytes, k) == SubSeq(bytes, Len(bytes) - k + 1, Len(bytes))

\* a byte string read as a two's-complement number of n bytes
C32_SignExtend(o, n) ==
    [i \in 1..n |-> IF i <= n - Len(o)
                    THEN (IF TopBit(o[1]) THEN 255 ELSE 0)
                    ELSE o[i - (n - Len(o))]]

\* a byte string read as an unsigned number of n bytes
C32_ZeroExtend(o, n) ==
    [i \in 1..n |-> IF i <= n - Len(o) THEN 0 ELSE o[i - (n - Len(o))]]

\* o is the shortest two's-complement string for the 4-byte value v
C32_MinimalSigned(v, o) ==
    /\ Len(o) \in 1..4
    /\ C32_SignExtend(o, 4) = v
    /\ \A k \in 1..(Len(o) - 1) : C32_SignExtend(C32_Suffix(v, k), 4) # v

\* o is the shortest string for the unsigned n-byte value v whose first byte
\* has its top bit clear, and o starts with an added 0x00 exactly when the
\* most significant non-zero byte of v has its top bit set
C32_MinimalUnsigned(v, o, n) ==
    LET wide == <<0>> \o v
    IN /\ Len(o) \in 1..(n + 1)
       /\ ~TopBit(o[1])
       /\ C32_ZeroExtend(o, n + 1) = wide
       /\ \A k \in 1..(Len(o) - 1) :
             \/ TopBit(C32_Suffix(wide, k)[1])
             \/ C32_ZeroExtend(C32_Suffix(wide, k), n + 1) # wide
       /\ (Len(o) > 1 /\ o[1] = 0) <=>
             (\E i \in 1..n : /\ TopBit(v[i])
                              /\ \A j \in 1..(i - 1) : v[j] = 0)

\* C32: encode_integer_stack yields the shortest big-endian two's-complement
\* string (1 to 4 bytes) whose sign-extended value is v; encode_unsigned32_stack
\* and encode_integer64_stack yield the shortest big-endian string of value v
\* (1 to 5, resp. 1 to 9 bytes) whose first byte has its top bit clear, with a
\* leading 0x00 iff the most significant value byte has its top bit set.
C32_MinimalEncodings ==
    /\ encoded.fn # "none" => Len(encoded.out) = encoded.len
    /\ encoded.fn = "integer" => C32_MinimalSigned(encoded.value, encoded.out)
    /\ encoded.fn = "unsigned32" => C32_MinimalUnsigned(encoded.value, encoded.out, 4)
    /\ encoded.fn = "integer64" => C32_MinimalUnsigned(encoded.value, encoded.out, 8)

\* -32769 keeps one 0xFF in front of 0x7F
C32_Witness ==
    /\ encoded.fn = "integer"
    /\ encoded.value = <<255, 255, 127, 255>>
    /\ encoded.out = <<255, 127, 255>>


(***************************************************************************)
(* OidTable (src/handler/oid_table.rs)                                     *)
(***************************************************************************)
TableValues == {1, 2}

\* Ord::cmp for Oid
OidCmp(a, b) == IF a = b THEN "Equal" ELSE IF OidLt(a, b) THEN "Less" ELSE "Greater"

\* the halving loop of slice::binary_search_by (indices count from 0)
RECURSIVE BinarySearchLoop(_, _, _, _)
BinarySearchLoop(es, oid, base, size) ==
    IF size > 1
    THEN LET half == size \div 2
             mid == base + half
             cmp == OidCmp(es[mid + 1][1], oid)
         IN BinarySearchLoop(es, oid, IF cmp = "Greater" THEN base ELSE mid,
                             size - half)
    ELSE base

\* self.entries.binary_search_by(|(o, _)| o.cmp(oid)): Ok(idx) or Err(idx)
binary_search_by(es, oid) ==
    IF Len(es) = 0
    THEN [ok |-> FALSE, idx |-> 0]
    ELSE LET base == BinarySearchLoop(es, oid, 0, Len(es))
             cmp == OidCmp(es[base + 1][1], oid)
         IN IF cmp = "Equal"
            THEN [ok |-> TRUE, idx |-> base]
            ELSE [ok |-> FALSE, idx |-> base + (IF cmp = "Less" THEN 1 ELSE 0)]

\* Vec::insert(idx, element)
VecInsert(es, idx, e) == SubSeq(es, 1, idx) \o <<e>> \o SubSeq(es, idx + 1, Len(es))

\* Vec::remove(idx)
VecRemove(es, idx) == SubSeq(es, 1, idx) \o SubSeq(es, idx + 2, Len(es))

\* slice::get(idx)
VecGet(es, idx) == IF idx < Len(es) THEN Some(es[idx + 1]) ELSE None

\* a get_next that returns the entry found on an exact match
get_next_inclusive(es, oid) ==
    VecGet(es, binary_search_by(es, oid).idx)

\* OidTable::get_next
get_next(es, oid) ==
    LET found == binary_search_by(es, oid)
    IN IF found.ok THEN VecGet(es, found.idx + 1) ELSE VecGet(es, found.idx)

\* OidTable::get
get(es, oid) ==
    LET found == binary_search_by(es, oid)
    IN IF found.ok THEN Some(es[found.idx + 1][2]) ELSE None

NoTableCall == [op |-> "none", oid |-> <<>>, result |-> None]
TableCall(op, oid, result) == [op |-> op, oid |-> oid, result |-> result]

\* OidTable::insert
TableInsert ==
    /\ UNCHANGED notTable
    /\ \E oid \in Oids, value \in TableValues :
          LET found == binary_search_by(entries, oid)
          IN /\ entries' = IF found.ok
                           THEN [entries EXCEPT ![found.idx + 1] = <<oid, value>>]
                           ELSE VecInsert(entries, found.idx, <<oid, value>>)
             /\ tableLast' = TableCall("insert", oid, None)

\* OidTable::remove
TableRemove ==
    /\ UNCHANGED notTable
    /\ \E oid \in Oids :
          LET found == binary_search_by(entries, oid)
          IN IF found.ok
             THEN /\ entries' = VecRemove(entries, found.idx)
                  /\ tableLast' = TableCall("remove", oid, Some(entries[found.idx + 1][2]))
             ELSE /\ entries' = entries
                  /\ tableLast' = TableCall("remove", oid, None)

\* OidTable::get
TableGet ==
    /\ UNCHANGED notTable
    /\ \E oid \in Oids : tableLast' = TableCall("get", oid, get(entries, oid))
    /\ UNCHANGED entries

\* OidTable::get_next
TableGetNext ==
    /\ UNCHANGED notTable
    /\ \E oid \in Oids : tableLast' = TableCall("get_next", oid, get_next(entries, oid))
    /\ UNCHANGED entries

\* OidTable::clear
TableClear ==
    /\ UNCHANGED notTable
    /\ entries' = <<>>
    /\ tableLast' = TableCall("clear", <<>>, None)

TableNext == TableInsert \/ TableRemove \/ TableGet \/ TableGetNext \/ TableClear

\* OidTable::new
TableInit ==
    /\ entries = <<>>
    /\ tableLast = NoTableCall

(***************************************************************************)
(* Properties of OidTable                                                  *)
(***************************************************************************)
\* the stored entries whose OID is greater than o
C33_Greater(o) == {i \in 1..Len(entries) : OidLt(o, entries[i][1])}

\* C33: after any sequence of insert, remove and clear the entries are
\* strictly ascending by OID (so no OID is stored twice), and get_next(o)
\* returns the stored entry with the least OID strictly greater than o, or
\* None when no stored OID is greater than o, whether or not o is stored.
C33_SortedAndGetNext ==
    /\ \A i \in 1..(Len(entries) - 1) : OidLt(entries[i][1], entries[i + 1][1])
    /\ tableLast.op = "get_next" =>
          IF C33_Greater(tableLast.oid) = {}
          THEN tableLast.result = None
          ELSE \E i \in C33_Greater(tableLast.oid) :
                  /\ tableLast.result = Some(entries[i])
                  /\ \A j \in C33_Greater(tableLast.oid) :
                        OidLe(entries[i][1], entries[j][1])

\* get_next of a stored OID, with smaller and greater OIDs stored around it,
\* returned its successor
C33_Witness ==
    /\ tableLast.op = "get_next"
    /\ Len(entries) = 4
    /\ tableLast.oid = entries[2][1]
    /\ tableLast.result = Some(entries[3])


(***************************************************************************)
(* Typestate client builders (src/client/builder.rs)                       *)
(***************************************************************************)
AuthProtocols == {"Md5", "Sha1", "Sha224", "Sha256", "Sha384", "Sha512"}
PrivProtocols == {"Des", "Des3", "Aes128", "Aes192", "Aes256"}
Passwords == {"p", "q"}
Retries == {0, 3}

\* builder types on which privacy could be called were it not a typestate
MethodsPrivacyEverywhere(type) ==
    {"privacy", "auth", "retries", "build", "connect", "connect_tcp"}

\* the methods each builder type has (impl blocks and impl_common_methods!)
Methods(type) ==
    CASE type = "V3ClientBuilder" ->
             {"auth", "retries", "build", "connect", "connect_tcp"}
      [] type = "V3AuthClientBuilder" ->
             {"privacy", "retries", "build", "connect", "connect_tcp"}
      [] type = "V3AuthPrivClientBuilder" ->
             {"retries", "build", "connect", "connect_tcp"}
      [] OTHER -> {}

NoBuilder == [type |-> "none", retries |-> 3, auth |-> None, priv |-> None]

\* V3SecurityConfig::new, .auth, .privacy
V3SecurityConfigNew == [auth |-> None, privacy |-> None]
V3SecurityConfigAuth(security, protocol, password) ==
    [security EXCEPT !.auth = Some(<<protocol, password>>)]
V3SecurityConfigPrivacy(security, protocol, password) ==
    [security EXCEPT !.privacy = Some(<<protocol, password>>)]

\* Client::v3: V3ClientBuilder::new with BaseConfig::new
ClientV3 ==
    /\ UNCHANGED notBuilder
    /\ builder.type = "none"
    /\ builder' = [builder EXCEPT !.type = "V3ClientBuilder"]
    /\ UNCHANGED clientConfig

\* retries, from impl_common_methods!
SetRetries ==
    /\ UNCHANGED notBuilder
    /\ "retries" \in Methods(builder.type)
    /\ \E retries \in Retries : builder' = [builder EXCEPT !.retries = retries]
    /\ UNCHANGED clientConfig

\* V3ClientBuilder::auth
BuilderAuth ==
    /\ UNCHANGED notBuilder
    /\ "auth" \in Methods(builder.type)
    /\ \E protocol \in AuthProtocols, password \in Passwords :
          builder' = [type |-> "V3AuthClientBuilder", retries |-> builder.retries,
                      auth |-> Some(<<protocol, password>>), priv |-> builder.priv]
    /\ UNCHANGED clientConfig

\* V3AuthClientBuilder::privacy
BuilderPrivacy ==
    /\ UNCHANGED notBuilder
    /\ "privacy" \in Methods(builder.type)
    /\ \E protocol \in PrivProtocols, password \in Passwords :
          builder' = [type |-> "V3AuthPrivClientBuilder", retries |-> builder.retries,
                      auth |-> builder.auth, priv |-> Some(<<protocol, password>>)]
    /\ UNCHANGED clientConfig

\* the three build methods: the security configuration made of the builder's
\* fields (a field the builder type does not have is None)
BuildSecurity(b) ==
    LET named == V3SecurityConfigNew
        authed == IF b.auth # None
                  THEN V3SecurityConfigAuth(named, b.auth[1][1], b.auth[1][2])
                  ELSE named
    IN IF b.priv # None
       THEN V3SecurityConfigPrivacy(authed, b.priv[1][1], b.priv[1][2])
       ELSE authed

\* build / connect / connect_tcp of the three V3 builders; the builder is
\* consumed
BuilderBuild ==
    /\ UNCHANGED notBuilder
    /\ \E how \in {"build", "connect", "connect_tcp"} :
          /\ how \in Methods(builder.type)
          /\ clientConfig' = Some([version |-> "V3", retries |-> builder.retries,
                                   v3_security |-> Some(BuildSecurity(builder)),
                                   how |-> how, from |-> builder.type])
    /\ builder' = [NoBuilder EXCEPT !.type = "consumed"]

BuilderNext == ClientV3 \/ SetRetries \/ BuilderAuth \/ BuilderPrivacy \/ BuilderBuild

BuilderInit ==
    /\ builder = NoBuilder
    /\ clientConfig = None

(***************************************************************************)
(* Properties of the client builders                                       *)
(***************************************************************************)
\* C34: every SNMPv3 client configuration produced by the builders has an
\* authentication protocol whenever it has a privacy protocol, and so does
\* every builder value on the way: privacy is only reachable after auth.
C34_PrivImpliesAuth ==
    /\ builder.priv # None => builder.auth # None
    /\ clientConfig # None =>
          LET security == clientConfig[1].v3_security[1]
          IN security.privacy # None => security.auth # None

\* a client built with authentication and privacy
C34_Witness ==
    /\ clientConfig # None
    /\ clientConfig[1].from = "V3AuthPrivClientBuilder"
    /\ clientConfig[1].v3_security[1].privacy # None
    /\ clientConfig[1].v3_security[1].auth # None

Init == SetInit /\ WalkInit /\ SharedInit /\ VacmInit /\ AllocInit /\ EncodeInit /\ TableInit /\ BuilderInit

Next == SetNext \/ WalkNext \/ SharedNext \/ ViewNext \/ AccessNext \/ AllocNext \/ EncodeNext \/ TableNext \/ BuilderNext

Spec == Init /\ [][Next]_vars

SpecSet == Init /\ [][SetNext]_vars

SpecWalk == Init /\ [][WalkNext]_vars

\* the stream is created and polled, and every request eventually resolves
WalkProgress ==
    WalkPollOk \/ WalkPollErr \/ BulkPollBuffered \/ BulkPollOk \/ BulkPollErr

SpecShared == Init /\ [][SharedNext]_vars

SpecView == Init /\ [][ViewNext]_vars

SpecAccess == Init /\ [][AccessNext]_vars

SpecAlloc == Init /\ [][AllocNext]_vars

\* the runtime schedules the receive loop task, and datagrams keep arriving
SpecEncode == Init /\ [][EncodeNext]_vars

SpecTable == Init /\ [][TableNext]_vars

SpecBuilder == Init /\ [][BuilderNext]_vars

SpecRecv == Init /\ [][RecvNext]_vars

FairShared == SpecShared /\ WF_vars(LoopReceive) /\ WF_vars(LoopPurge)

\* time passes, and the runtime polls a recv future whose channel or timer
\* is ready; nothing is assumed about datagrams arriving
FairRecv ==
    /\ SpecRecv
    /\ WF_vars(Tick)
    /\ \A c \in CallIds :
          /\ WF_vars(RecvComplete(c))
          /\ WF_vars(RecvChannelClosed(c))
          /\ WF_vars(RecvTimeout(c))

FairWalk == SpecWalk /\ WF_vars(WalkNew) /\ WF_vars(WalkProgress)

====
